---------------------------- MODULE Spec2Model ----------------------------
(***************************************************************************)
(* Schema-inference-driven storage router: databaseManager.js              *)
(* (analyzeJSONSchema and the PostgreSQL / MongoDB adapters),              *)
(* jsonProcessor.js (analyzeAndStoreJSON) and logger.js (logUpload,        *)
(* logError).                                                              *)
(*                                                                         *)
(* A JSON value is a record [t, v, k, c]:                                  *)
(*   t  "null" | "number" | "string" | "boolean" | "array" | "object"      *)
(*   v  the payload of a scalar (a number's value, a string's length,      *)
(*      0/1 for a boolean), 0 otherwise                                    *)
(*   k  the own keys of an object, in insertion order (<<>> otherwise)     *)
(*   c  the property values of an object (aligned with k) or the elements  *)
(*      of an array                                                        *)
(* A filename or table name is a sequence of one-character strings.        *)
(***************************************************************************)
EXTENDS Integers, Sequences, FiniteSets, TLC

(***************************************************************************)
(* Bounds of the explored input space.                                     *)
(***************************************************************************)
MaxNest == 3    \* wrapping levels applied to the base items
MaxItems == 11  \* longest array payload (the consistency sample is 10)
MaxParts == 4   \* filename = at most this many segments

(***************************************************************************)
(* JSON values.                                                            *)
(***************************************************************************)
JNull == [t |-> "null", v |-> 0, k |-> <<>>, c |-> <<>>]
JNum(n) == [t |-> "number", v |-> n, k |-> <<>>, c |-> <<>>]
JStr(len) == [t |-> "string", v |-> len, k |-> <<>>, c |-> <<>>]
JBool(b) == [t |-> "boolean", v |-> IF b THEN 1 ELSE 0, k |-> <<>>, c |-> <<>>]
JArr(elems) == [t |-> "array", v |-> 0, k |-> <<>>, c |-> elems]
JObj(keys, vals) == [t |-> "object", v |-> 0, k |-> keys, c |-> vals]

Range(s) == {s[i] : i \in 1..Len(s)}
Min(a, b) == IF a < b THEN a ELSE b

\* typeof x
TypeOf(x) == IF x.t \in {"null", "array", "object"} THEN "object" ELSE x.t
\* Array.isArray(x)
IsArray(x) == x.t = "array"
\* typeof x === 'object' && x !== null
IsObjectLike(x) == x.t \in {"array", "object"}
\* !x  (JavaScript falsiness of a JSON value)
Falsy(x) == \/ x.t = "null"
            \/ x.t \in {"number", "string", "boolean"} /\ x.v = 0

\* Object.keys(x) for a non-null x: own enumerable keys; the indices of an
\* array or of a string's characters, the keys of an object, none for a
\* number or boolean.
ObjectKeys(x) ==
  CASE x.t = "object" -> x.k
    [] x.t = "array" -> [i \in 1..Len(x.c) |-> ToString(i - 1)]
    [] x.t = "string" -> [i \in 1..x.v |-> ToString(i - 1)]
    [] OTHER -> <<>>

\* Object.values(x) for a non-null x. The characters of a string are
\* themselves strings of length 1.
ObjectValues(x) ==
  CASE x.t \in {"object", "array"} -> x.c
    [] x.t = "string" -> [i \in 1..x.v |-> JStr(1)]
    [] OTHER -> <<>>

\* obj[key] for an own key of an object
Get(obj, key) == obj.c[CHOOSE i \in 1..Len(obj.k) : obj.k[i] = key]


MaxOf(S) == CHOOSE m \in S : \A x \in S : x <= m

(***************************************************************************)
(* Array.prototype.sort() on an array of distinct keys: ascending by       *)
(* UTF-16 code units.  KeyOrder lists, in that order, every key the        *)
(* explored payloads can carry (digits sort before letters, and            *)
(* "name" < "orders" < "userId" < "user_id" since 'I' (73) < '_' (95)).    *)
(***************************************************************************)
KeyOrder ==
  <<"0", "1", "2", "a", "b", "c", "d", "name", "orders", "userId", "user_id">>
KeyRank(key) == CHOOSE i \in 1..Len(KeyOrder) : KeyOrder[i] = key

RECURSIVE InsertSorted(_, _)
InsertSorted(sorted, key) ==
  IF sorted = <<>> THEN <<key>>
  ELSE IF KeyRank(key) <= KeyRank(Head(sorted)) THEN <<key>> \o sorted
  ELSE <<Head(sorted)>> \o InsertSorted(Tail(sorted), key)

RECURSIVE SortKeys(_)
SortKeys(keys) ==
  IF keys = <<>> THEN <<>>
  ELSE InsertSorted(SortKeys(SubSeq(keys, 1, Len(keys) - 1)), keys[Len(keys)])

\* JSON.stringify of an array of strings (none of the keys needs escaping)
RECURSIVE JoinQuoted(_)
JoinQuoted(keys) ==
  IF keys = <<>> THEN ""
  ELSE IF Len(keys) = 1 THEN "\"" \o keys[1] \o "\""
  ELSE "\"" \o keys[1] \o "\"," \o JoinQuoted(Tail(keys))

StringifyKeys(keys) == "[" \o JoinQuoted(keys) \o "]"

\* The TypeError of Object.keys / Object.entries on null
NullTypeError == "Cannot convert undefined or null to object"

(***************************************************************************)
(* calculateDepth(obj, current = 1)                                        *)
(***************************************************************************)
\* Faulty variant of calculateDepth: scalar properties count as a level too
RECURSIVE calculateDepth_AllValues(_, _)
calculateDepth_AllValues(obj, current) ==
  IF TypeOf(obj) # "object" \/ obj.t = "null" THEN current
  ELSE LET vals == ObjectValues(obj)
           deeper == {calculateDepth_AllValues(vals[i], current + 1) :
                        i \in 1..Len(vals)}
       IN MaxOf({current} \cup deeper)

RECURSIVE calculateDepth(_, _)
calculateDepth(obj, current) ==
  IF TypeOf(obj) # "object" \/ obj.t = "null" THEN current
  ELSE LET vals == ObjectValues(obj)
           deeper == {calculateDepth(vals[i], current + 1) :
                        i \in {j \in 1..Len(vals) : IsObjectLike(vals[j])}}
       IN MaxOf({current} \cup deeper)

(***************************************************************************)
(* hasNestedArrays(obj)                                                    *)
(***************************************************************************)
RECURSIVE hasNestedArrays(_)
hasNestedArrays(obj) ==
  IF TypeOf(obj) # "object" \/ obj.t = "null" THEN FALSE
  ELSE LET vals == ObjectValues(obj)
       IN \E i \in 1..Len(vals) :
            \/ IsArray(vals[i])
            \/ /\ IsObjectLike(vals[i]) /\ ~IsArray(vals[i])
               /\ hasNestedArrays(vals[i])

(***************************************************************************)
(* checkSchemaConsistency(items): [threw, value].  The loop runs           *)
(* i = 1 .. min(length, 10) - 1 (0-based) and stops at the first item      *)
(* that differs (return false) or that is null (Object.keys throws).       *)
(***************************************************************************)
SampleSize == 10

\* Faulty variant of ConsistencyLoop: every item is compared, not only the sample
RECURSIVE ConsistencyLoop_NoCap(_, _, _)
ConsistencyLoop_NoCap(items, firstKeys, i) ==
  IF ~(i < Len(items)) THEN [threw |-> FALSE, value |-> TRUE]
  ELSE IF items[i + 1].t = "null" THEN [threw |-> TRUE, value |-> FALSE]
  ELSE LET currentKeys == SortKeys(ObjectKeys(items[i + 1]))
       IN IF StringifyKeys(firstKeys) # StringifyKeys(currentKeys)
          THEN [threw |-> FALSE, value |-> FALSE]
          ELSE ConsistencyLoop_NoCap(items, firstKeys, i + 1)

RECURSIVE ConsistencyLoop(_, _, _)
ConsistencyLoop(items, firstKeys, i) ==
  IF ~(i < Min(Len(items), SampleSize)) THEN [threw |-> FALSE, value |-> TRUE]
  ELSE IF items[i + 1].t = "null" THEN [threw |-> TRUE, value |-> FALSE]
  ELSE LET currentKeys == SortKeys(ObjectKeys(items[i + 1]))
       IN IF StringifyKeys(firstKeys) # StringifyKeys(currentKeys)
          THEN [threw |-> FALSE, value |-> FALSE]
          ELSE ConsistencyLoop(items, firstKeys, i + 1)

checkSchemaConsistency(items) ==
  IF Len(items) <= 1 THEN [threw |-> FALSE, value |-> TRUE]
  ELSE IF items[1].t = "null" THEN [threw |-> TRUE, value |-> FALSE]
  ELSE ConsistencyLoop(items, SortKeys(ObjectKeys(items[1])), 1)

(***************************************************************************)
(* getType(value), inferSchema(obj).  A schema is the sequence of its      *)
(* entries [name, type, nullable] in Object.entries order.  JSON.parse     *)
(* never yields a Date, so the 'date' branch is not taken.                 *)
(***************************************************************************)
getType(value) ==
  IF value.t = "null" THEN "null"
  ELSE IF IsArray(value) THEN "array"
  ELSE TypeOf(value)

inferSchema(obj) ==
  IF obj.t = "null" THEN [threw |-> TRUE, value |-> <<>>]
  ELSE LET keys == ObjectKeys(obj)
           vals == ObjectValues(obj)
       IN [threw |-> FALSE,
           value |-> [i \in 1..Len(keys) |->
                        [name |-> keys[i], type |-> getType(vals[i]),
                         nullable |-> vals[i].t = "null"]]]

(***************************************************************************)
(* detectRelations(schema)                                                 *)
(***************************************************************************)
fkPatterns == <<"_id", "Id", "_ref", "Ref">>

\* String.prototype.endsWith
EndsWith(str, suffix) ==
  /\ Len(suffix) <= Len(str)
  /\ SubSeq(str, Len(str) - Len(suffix) + 1, Len(str)) = suffix

\* Faulty variant of detectRelations: the type of the field is not looked at
detectRelations_AnyType(schema) ==
  \E i \in 1..Len(schema) : \E p \in 1..Len(fkPatterns) :
    EndsWith(schema[i].name, fkPatterns[p])

detectRelations(schema) ==
  \E i \in 1..Len(schema) : \E p \in 1..Len(fkPatterns) :
    EndsWith(schema[i].name, fkPatterns[p]) /\ schema[i].type = "number"

(***************************************************************************)
(* analyzeJSONSchema(data).  The result carries the returned               *)
(* {useSQL, reason, schema}, whether the call threw (error), and the       *)
(* values the function logs to the console on the way (items analysed,     *)
(* depth, hasArrays, isConsistent).                                        *)
(***************************************************************************)
Decision(useSQL, reason, schema, items, depth, hasArrays, isConsistent) ==
  [threw |-> FALSE, error |-> "", useSQL |-> useSQL, reason |-> reason,
   schema |-> schema, items |-> items, depth |-> depth,
   hasArrays |-> hasArrays, isConsistent |-> isConsistent]

Thrown(error, items) ==
  [threw |-> TRUE, error |-> error, useSQL |-> FALSE, reason |-> "",
   schema |-> <<>>, items |-> items, depth |-> 0, hasArrays |-> FALSE,
   isConsistent |-> FALSE]

\* lines 46-57: unwrap a single root array property, then take the array
\* (data is a non-null object or array here)
AnalyzeItems(data) ==
  LET keys == ObjectKeys(data)
      actualData == IF ~IsArray(data) /\ TypeOf(data) = "object"
                       /\ Len(keys) = 1 /\ IsArray(Get(data, keys[1]))
                    THEN Get(data, keys[1])
                    ELSE data
  IN IF IsArray(actualData) THEN actualData.c ELSE <<actualData>>

\* Faulty variant of DecisionLogic: the flat-structure rule admits depth 3
DecisionLogic_Depth3(depth, hasArrays, isConsistent, schema) ==
  IF depth > 3
  THEN [useSQL |-> FALSE,
        reason |-> "Deep nesting detected (depth: " \o ToString(depth)
                   \o ") - MongoDB better suited for hierarchical data"]
  ELSE IF hasArrays
  THEN [useSQL |-> FALSE,
        reason |-> "Nested arrays detected - MongoDB handles dynamic arrays better"]
  ELSE IF ~isConsistent
  THEN [useSQL |-> FALSE,
        reason |-> "Inconsistent schema across items - MongoDB provides flexibility"]
  ELSE IF depth <= 3 /\ isConsistent
  THEN IF detectRelations(schema)
       THEN [useSQL |-> TRUE,
             reason |-> "Relational pattern detected (foreign keys) - PostgreSQL better for joins and relationships"]
       ELSE [useSQL |-> TRUE,
             reason |-> "Flat structure (depth: " \o ToString(depth)
                        \o ") with consistent schema - PostgreSQL optimal for relational queries"]
  ELSE [useSQL |-> FALSE,
        reason |-> "Complex structure - MongoDB provides better flexibility"]

\* Faulty variant of DecisionLogic: the nested-array rule is tried before the depth
\* rule
DecisionLogic_ArraysFirst(depth, hasArrays, isConsistent, schema) ==
  IF hasArrays
  THEN [useSQL |-> FALSE,
        reason |-> "Nested arrays detected - MongoDB handles dynamic arrays better"]
  ELSE IF depth > 3
  THEN [useSQL |-> FALSE,
        reason |-> "Deep nesting detected (depth: " \o ToString(depth)
                   \o ") - MongoDB better suited for hierarchical data"]
  ELSE IF ~isConsistent
  THEN [useSQL |-> FALSE,
        reason |-> "Inconsistent schema across items - MongoDB provides flexibility"]
  ELSE IF depth <= 2 /\ isConsistent
  THEN IF detectRelations(schema)
       THEN [useSQL |-> TRUE,
             reason |-> "Relational pattern detected (foreign keys) - PostgreSQL better for joins and relationships"]
       ELSE [useSQL |-> TRUE,
             reason |-> "Flat structure (depth: " \o ToString(depth)
                        \o ") with consistent schema - PostgreSQL optimal for relational queries"]
  ELSE [useSQL |-> FALSE,
        reason |-> "Complex structure - MongoDB provides better flexibility"]

\* lines 89-115: the decision logic
DecisionLogic(depth, hasArrays, isConsistent, schema) ==
  IF depth > 3
  THEN [useSQL |-> FALSE,
        reason |-> "Deep nesting detected (depth: " \o ToString(depth)
                   \o ") - MongoDB better suited for hierarchical data"]
  ELSE IF hasArrays
  THEN [useSQL |-> FALSE,
        reason |-> "Nested arrays detected - MongoDB handles dynamic arrays better"]
  ELSE IF ~isConsistent
  THEN [useSQL |-> FALSE,
        reason |-> "Inconsistent schema across items - MongoDB provides flexibility"]
  ELSE IF depth <= 2 /\ isConsistent
  THEN IF detectRelations(schema)
       THEN [useSQL |-> TRUE,
             reason |-> "Relational pattern detected (foreign keys) - PostgreSQL better for joins and relationships"]
       ELSE [useSQL |-> TRUE,
             reason |-> "Flat structure (depth: " \o ToString(depth)
                        \o ") with consistent schema - PostgreSQL optimal for relational queries"]
  ELSE [useSQL |-> FALSE,
        reason |-> "Complex structure - MongoDB provides better flexibility"]

\* Faulty variant of EmptyDecision: the empty dataset is sent to the document engine
EmptyDecision_Document(items) ==
  Decision(FALSE, "Empty dataset - defaulting to SQL", <<>>, items,
           0, FALSE, FALSE)

\* lines 59-65: the empty dataset
EmptyDecision(items) ==
  Decision(TRUE, "Empty dataset - defaulting to SQL", <<>>, items,
           0, FALSE, FALSE)

\* Faulty variant of analyzeJSONSchema: the depth is that of the last item
analyzeJSONSchema_DepthOfLast(data) ==
  IF Falsy(data) \/ TypeOf(data) # "object"
  THEN Decision(FALSE, "Invalid data structure", <<>>, <<>>, 0, FALSE, FALSE)
  ELSE LET items == AnalyzeItems(data) IN
    IF Len(items) = 0
    THEN EmptyDecision(items)
    ELSE LET firstItem == items[1]
             depth == calculateDepth(items[Len(items)], 1)
             hasArrays == hasNestedArrays(firstItem)
             consistency == checkSchemaConsistency(items)
             schema == inferSchema(firstItem)
         IN IF consistency.threw \/ schema.threw
            THEN Thrown(NullTypeError, items)
            ELSE LET d == DecisionLogic(depth, hasArrays, consistency.value,
                                        schema.value)
                 IN Decision(d.useSQL, d.reason, schema.value, items, depth,
                             hasArrays, consistency.value)

analyzeJSONSchema(data) ==
  IF Falsy(data) \/ TypeOf(data) # "object"
  THEN Decision(FALSE, "Invalid data structure", <<>>, <<>>, 0, FALSE, FALSE)
  ELSE LET items == AnalyzeItems(data) IN
    IF Len(items) = 0
    THEN EmptyDecision(items)
    ELSE LET firstItem == items[1]
             depth == calculateDepth(firstItem, 1)
             hasArrays == hasNestedArrays(firstItem)
             consistency == checkSchemaConsistency(items)
             schema == inferSchema(firstItem)
         IN IF consistency.threw \/ schema.threw
            THEN Thrown(NullTypeError, items)
            ELSE LET d == DecisionLogic(depth, hasArrays, consistency.value,
                                        schema.value)
                 IN Decision(d.useSQL, d.reason, schema.value, items, depth,
                             hasArrays, consistency.value)

(***************************************************************************)
(* analyzeAndStoreJSON line 23:                                            *)
(*   filename.replace('.json', '').replace(/[^a-zA-Z0-9_]/g, '_')          *)
(***************************************************************************)
Letters ==
  {"a", "b", "c", "d", "e", "f", "g", "h", "i", "j", "k", "l", "m", "n", "o",
   "p", "q", "r", "s", "t", "u", "v", "w", "x", "y", "z",
   "A", "B", "C", "D", "E", "F", "G", "H", "I", "J", "K", "L", "M", "N", "O",
   "P", "Q", "R", "S", "T", "U", "V", "W", "X", "Y", "Z"}
Digits == {"0", "1", "2", "3", "4", "5", "6", "7", "8", "9"}
WordChars == Letters \cup Digits \cup {"_"}

\* String.prototype.replace(pattern, replacement) with a string pattern:
\* only the first occurrence is replaced
ReplaceFirst(str, pattern, replacement) ==
  LET n == Len(pattern)
      hits == {i \in 1..(Len(str) - n + 1) : SubSeq(str, i, i + n - 1) = pattern}
  IN IF hits = {} THEN str
     ELSE LET i == CHOOSE h \in hits : \A g \in hits : h <= g
          IN SubSeq(str, 1, i - 1) \o replacement
             \o SubSeq(str, i + n, Len(str))

\* String.prototype.replace(/[^a-zA-Z0-9_]/g, '_')
RECURSIVE ReplaceNonWord(_)
ReplaceNonWord(str) ==
  IF Len(str) = 0 THEN ""
  ELSE (IF Head(str) \in WordChars THEN Head(str) ELSE "_")
       \o ReplaceNonWord(Tail(str))

TableName(filename) == ReplaceNonWord(ReplaceFirst(filename, ".json", ""))

(***************************************************************************)
(* The explored inputs.                                                    *)
(***************************************************************************)
Obj1(k1, v1) == JObj(<<k1>>, <<v1>>)
Obj2(k1, v1, k2, v2) == JObj(<<k1, k2>>, <<v1, v2>>)

Scalars == {JNull, JNum(1), JStr(2), JBool(TRUE)}

FlatObjects ==
  {JObj(<<>>, <<>>),
   Obj1("a", JNum(1)),
   Obj1("a", JNull),
   Obj1("userId", JStr(2)),
   Obj2("a", JNum(1), "b", JStr(2)),
   Obj2("b", JStr(2), "a", JNum(1)),
   Obj2("user_id", JNum(1), "name", JStr(1)),
   Obj2("user_id", JNum(2), "name", JStr(2))}

BaseItems == Scalars \cup FlatObjects \cup {JArr(<<>>)}

\* one more level of nesting around a value: as an object property, as an
\* array element
Wrap(S) == {Obj1("a", x) : x \in S} \cup {JArr(<<x>>) : x \in S}

RECURSIVE Nest(_)
Nest(n) == IF n = 0 THEN BaseItems ELSE BaseItems \cup Wrap(Nest(n - 1))

Items == Nest(MaxNest)

\* objects with two properties of mixed shape
PairVals ==
  {JNum(1), Obj1("a", JNum(1)), JArr(<<>>), Obj1("a", Obj1("a", JNum(1))),
   Obj1("a", JArr(<<JNum(1)>>))}
Pairs == {Obj2("a", x, "b", y) : x \in PairVals, y \in PairVals}

\* the items short arrays are built from
SampleItems ==
  {JNull, JNum(1), Obj1("a", JNum(1)),
   Obj2("a", JNum(1), "b", JStr(2)), Obj2("b", JStr(2), "a", JNum(1)),
   Obj2("user_id", JNum(1), "name", JStr(1)),
   Obj2("user_id", JNum(2), "name", JStr(2)),
   Obj1("a", Obj1("a", JNum(1))), Obj1("a", JArr(<<>>))}

ShortArrays ==
  {JArr(<<>>)} \cup {JArr(<<x>>) : x \in SampleItems}
  \cup {JArr(<<x, y>>) : x \in SampleItems, y \in SampleItems}

\* the items long arrays are built from
LongItems ==
  {JNull, Obj1("a", JNum(1)),
   Obj2("a", JNum(1), "b", JStr(2)), Obj2("b", JStr(2), "a", JNum(1))}

\* n copies of base, with alt at (1-based) position pos (none when pos > n)
Long(base, n, pos, alt) == JArr([i \in 1..n |-> IF i = pos THEN alt ELSE base])

LongArrays ==
  {Long(base, n, pos, alt) :
     base \in LongItems, alt \in LongItems, n \in 3..MaxItems,
     pos \in 2..MaxItems}

Wrapped == {Obj1("orders", arr) : arr \in ShortArrays}

\* deep, with a nested array and a numeric foreign-key-looking field
DeepFk ==
  Obj2("user_id", JNum(1),
       "a", Obj1("a", Obj1("a", Obj1("a", JArr(<<JNum(1)>>)))))

Examples ==
  {Obj1("a", Obj1("b", Obj1("c", Obj1("d", JNum(1))))),
   JArr(<<Obj2("user_id", JNum(1), "name", JStr(1)),
          Obj2("user_id", JNum(2), "name", JStr(1))>>),
   DeepFk, JArr(<<DeepFk, DeepFk>>), JArr(<<DeepFk, JObj(<<>>, <<>>)>>)}

Payloads ==
  Items \cup Pairs \cup ShortArrays \cup LongArrays \cup Wrapped \cup Examples

Segments == {"users", ".json", "-"}

RECURSIVE Concats(_)
Concats(n) ==
  IF n = 0 THEN {""}
  ELSE LET shorter == Concats(n - 1)
       IN shorter \cup {x \o seg : x \in shorter, seg \in Segments}

Filenames == Concats(MaxParts)

BaseName == "users.json"
BasePayloads == {JArr(<<>>), Obj1("a", JNum(1)), JNull}

\* every payload under one filename, every filename over a few payloads
Inputs ==
  (Payloads \X {BaseName}) \cup (BasePayloads \X Filenames)

(***************************************************************************)
(* State.                                                                  *)
(***************************************************************************)
VARIABLES
  pgPool,      \* databaseManager: pgPool is set (NEON_DATABASE_URL was set)
  mongoConn,   \* "unset" (no MONGODB_URI) | "pending" | "connected" | "failed"
  mongoDb,     \* databaseManager: mongoDb is set
  pgTables,    \* relational backend: table name -> [columns, rows]
  mongoColls,  \* document backend: collection name -> documents
  uploads,     \* event log, 'uploads' node: the records pushed
  errors,      \* event log, 'errors' node: the records pushed
  console,     \* records written to the console when a push failed
  pc,          \* where analyzeAndStoreJSON stands
  jsonData,    \* its arguments
  filename,
  analysis,    \* the result of analyzeJSONSchema(jsonData)
  tableName,
  store,       \* locals of the running storeInPostgreSQL / storeInMongoDB
  recordCount,
  caught,      \* message of the error caught by the inner or outer catch
  result,      \* the value analyzeAndStoreJSON resolved to
  calls,       \* what analyzeAndStoreJSON and the direct call entered and
               \* requested, in order
  clock,       \* the relational backend's CURRENT_TIMESTAMP
  adapterCall, \* a direct call of a query or delete adapter function
  second,      \* a second, concurrent storeInPostgreSQL call
  deletion,    \* the running DELETE /files/:id request
  removed,     \* the keys of the upload records removed from the log
  blobs,       \* the public ids held by the media store
  cloudinaryInitialized,
  batch        \* the running batch of JSON files

vars ==
  <<pgPool, mongoConn, mongoDb, pgTables, mongoColls, uploads, errors,
    console, pc, jsonData, filename, analysis, tableName, store, recordCount,
    caught, result, calls, clock, adapterCall, second, deletion, removed,
    blobs, cloudinaryInitialized, batch>>

backendVars == <<pgTables, mongoColls, clock>>
logVars == <<uploads, errors, console>>
connVars == <<pgPool, mongoConn, mongoDb>>
callVars == <<jsonData, filename, analysis, tableName>>
peerVars == <<adapterCall, second>>
routeVars == <<deletion, removed, blobs, cloudinaryInitialized, batch>>

NoStore ==
  [items |-> <<>>, columns |-> <<>>, next |-> 0, insertedCount |-> 0,
   docs |-> <<>>]
NoResult == [success |-> FALSE, status |-> "pending"]
NoCall ==
  [fn |-> "", name |-> "", limit |-> 0, issuedAt |-> "", pc |-> "idle",
   threw |-> FALSE, error |-> "", value |-> <<>>]
NoSecond ==
  [pc |-> "idle", data |-> JNull, tableName |-> "", store |-> NoStore,
   threw |-> FALSE, error |-> "", count |-> 0]
NoDeletion ==
  [pc |-> "idle", id |-> 0, status |-> 0, steps |-> <<>>, warned |-> ""]
NoBatch ==
  [fn |-> "", pc |-> "idle", files |-> <<>>, next |-> 0, results |-> <<>>,
   status |-> 0, steps |-> <<>>]

\* the process has loaded its modules; log is what the upload log holds
\* from earlier runs and stored what the media store holds
Loaded(log, stored, initialized) ==
  /\ pgPool \in BOOLEAN
  /\ mongoConn \in {"unset", "pending"}
  /\ mongoDb = FALSE
  /\ pgTables = <<>>
  /\ mongoColls = <<>>
  /\ uploads = log
  /\ errors = <<>>
  /\ console = <<>>
  /\ pc = "idle"
  /\ jsonData = JNull
  /\ filename = ""
  /\ analysis = Decision(FALSE, "", <<>>, <<>>, 0, FALSE, FALSE)
  /\ tableName = ""
  /\ store = NoStore
  /\ recordCount = 0
  /\ caught = ""
  /\ result = NoResult
  /\ calls = <<>>
  /\ clock = 0
  /\ adapterCall = NoCall
  /\ second = NoSecond
  /\ deletion = NoDeletion
  /\ removed = {}
  /\ blobs = stored
  /\ cloudinaryInitialized = initialized
  /\ batch = NoBatch

\* a first run: an empty upload log and an empty media store
Init == Loaded(<<>>, {}, TRUE)

(***************************************************************************)
(* mongoClient.connect().then(...).catch(...) started at module load.      *)
(***************************************************************************)
MongoConnected ==
  /\ mongoConn = "pending"
  /\ mongoConn' = "connected"
  /\ mongoDb' = TRUE
  /\ UNCHANGED <<pgPool, backendVars, logVars, pc, callVars, store,
                 recordCount, caught, result, calls, peerVars,
                 routeVars>>

\* Faulty variant of MongoConnectFailed: the handle is set although the
\* connect failed
MongoConnectFailed_SetsHandle ==
  /\ mongoConn = "pending"
  /\ mongoConn' = "failed"
  /\ mongoDb' = TRUE
  /\ UNCHANGED <<pgPool, backendVars, logVars, pc, callVars, store,
                 recordCount, caught, result, calls, peerVars,
                 routeVars>>

MongoConnectFailed ==
  /\ mongoConn = "pending"
  /\ mongoConn' = "failed"
  /\ UNCHANGED <<pgPool, mongoDb, backendVars, logVars, pc, callVars, store,
                 recordCount, caught, result, calls, peerVars,
                 routeVars>>

(***************************************************************************)
(* The adapters, up to their first backend request.  Each yields           *)
(*   kind "throw"  (error)   the promise is rejected                       *)
(*   kind "return" (count)   it resolved without touching the backend      *)
(*   kind "await"            a request is on its way; store holds locals   *)
(***************************************************************************)
Outcome(kind, error, count, st) ==
  [kind |-> kind, error |-> error, count |-> count, store |-> st]

\* storeInPostgreSQL lines 240-249
PgItems(data) ==
  IF ~IsArray(data) /\ TypeOf(data) = "object"
  THEN IF data.t = "null" THEN [threw |-> TRUE, value |-> <<>>]
       ELSE LET keys == ObjectKeys(data)
            IN IF Len(keys) = 1 /\ IsArray(Get(data, keys[1]))
               THEN [threw |-> FALSE, value |-> Get(data, keys[1]).c]
               ELSE [threw |-> FALSE, value |-> <<data>>]
  ELSE [threw |-> FALSE,
        value |-> IF IsArray(data) THEN data.c ELSE <<data>>]

\* Faulty variant of MongoItems: a root array property is unwrapped whatever the
\* number of keys
MongoItems_AnyKeyCount(data) ==
  IF ~IsArray(data) /\ TypeOf(data) = "object"
  THEN IF data.t = "null" THEN [threw |-> TRUE, value |-> <<>>]
       ELSE LET keys == ObjectKeys(data)
            IN IF Len(keys) >= 1 /\ IsArray(Get(data, keys[1]))
               THEN [threw |-> FALSE, value |-> Get(data, keys[1]).c]
               ELSE [threw |-> FALSE, value |-> <<data>>]
  ELSE [threw |-> FALSE,
        value |-> IF IsArray(data) THEN data.c ELSE <<data>>]

\* storeInMongoDB lines 331-340
MongoItems(data) ==
  IF ~IsArray(data) /\ TypeOf(data) = "object"
  THEN IF data.t = "null" THEN [threw |-> TRUE, value |-> <<>>]
       ELSE LET keys == ObjectKeys(data)
            IN IF Len(keys) = 1 /\ IsArray(Get(data, keys[1]))
               THEN [threw |-> FALSE, value |-> Get(data, keys[1]).c]
               ELSE [threw |-> FALSE, value |-> <<data>>]
  ELSE [threw |-> FALSE,
        value |-> IF IsArray(data) THEN data.c ELSE <<data>>]

\* Faulty variant of PgType: a boolean field gets a TEXT column
PgType_BooleanAsText(type) ==
  IF type = "number" THEN "NUMERIC"
  ELSE IF type = "date" THEN "TIMESTAMP"
  ELSE IF type \in {"object", "array"} THEN "JSONB"
  ELSE "TEXT"

\* lines 261-276: the column type of an inferred type
PgType(type) ==
  IF type = "number" THEN "NUMERIC"
  ELSE IF type = "boolean" THEN "BOOLEAN"
  ELSE IF type = "date" THEN "TIMESTAMP"
  ELSE IF type \in {"object", "array"} THEN "JSONB"
  ELSE "TEXT"

\* storeInPostgreSQL lines 235-285, up to the CREATE TABLE request
PgBegin(data) ==
  IF ~pgPool THEN Outcome("throw", "PostgreSQL not configured", 0, NoStore)
  ELSE LET items == PgItems(data) IN
    IF items.threw THEN Outcome("throw", NullTypeError, 0, NoStore)
    ELSE IF Len(items.value) = 0 THEN Outcome("return", "", 0, NoStore)
    ELSE LET schema == inferSchema(items.value[1]) IN
      IF schema.threw THEN Outcome("throw", NullTypeError, 0, NoStore)
      ELSE Outcome("await", "", 0,
                   [items |-> items.value,
                    columns |-> [i \in 1..Len(schema.value) |->
                                   [name |-> schema.value[i].name,
                                    pgType |-> PgType(schema.value[i].type)]],
                    next |-> 1, insertedCount |-> 0, docs |-> <<>>])

\* new Date()
Now == [t |-> "date", v |-> 0, k |-> <<>>, c |-> <<>>]

\* Faulty variant of Stamp: the document is the item as it is
Stamp_NoTimestamp(item) ==
  LET keys == IF item.t = "null" THEN <<>> ELSE ObjectKeys(item)
      vals == IF item.t = "null" THEN <<>> ELSE ObjectValues(item)
  IN JObj(keys, vals)

\* ({...item, created_at: new Date()}): the own enumerable properties of
\* item (none for null, a number or a boolean) and the timestamp
Stamp(item) ==
  LET keys == IF item.t = "null" THEN <<>> ELSE ObjectKeys(item)
      vals == IF item.t = "null" THEN <<>> ELSE ObjectValues(item)
  IN JObj(keys \o <<"created_at">>, vals \o <<Now>>)

\* storeInMongoDB lines 326-355, up to the insertMany request
MongoBegin(data) ==
  IF ~mongoDb THEN Outcome("throw", "MongoDB not configured", 0, NoStore)
  ELSE LET items == MongoItems(data) IN
    IF items.threw THEN Outcome("throw", NullTypeError, 0, NoStore)
    ELSE IF Len(items.value) = 0 THEN Outcome("return", "", 0, NoStore)
    ELSE Outcome("await", "", 0,
                 [items |-> items.value, columns |-> <<>>, next |-> 0,
                  insertedCount |-> 0,
                  docs |-> [i \in 1..Len(items.value) |->
                              Stamp(items.value[i])]])

(***************************************************************************)
(* analyzeAndStoreJSON(jsonData, filename)                                 *)
(***************************************************************************)
\* Faulty variant of DbType: the two labels are exchanged
DbType_Exchanged == IF analysis.useSQL THEN "MongoDB" ELSE "PostgreSQL"

DbType == IF analysis.useSQL THEN "PostgreSQL" ELSE "MongoDB"

\* line 38: the record count reported when the store threw
FallbackCount(data) == IF IsArray(data) THEN Len(data.c) ELSE 1

\* lines 42-51 (timestamp and processing_time_ms are not modelled)
Metadata ==
  [type |-> "json", filename |-> filename, db_type |-> DbType,
   schema_summary |-> analysis.reason, schema_details |-> analysis.schema,
   record_count |-> recordCount, table_name |-> tableName]

\* lines 59-69
Processed ==
  [success |-> TRUE, filename |-> filename, status |-> "processed",
   database |-> DbType, tableName |-> tableName,
   recordCount |-> recordCount, reason |-> analysis.reason,
   schema |-> analysis.schema]

\* lines 81-86
Failed ==
  [success |-> FALSE, filename |-> filename, status |-> "failed",
   error |-> caught]

\* what the call does on reaching a position: the request it issues there,
\* or its return
Issued(position) ==
  CASE position = "pg_create" -> "pg.CREATE TABLE"
    [] position = "pg_insert" -> "pg.INSERT"
    [] position = "mongo_insert" -> "mongo.insertMany"
    [] position = "log_upload" -> "logUpload"
    [] position = "log_error" -> "logError"
    [] position = "done" -> "return"

\* the store resolved to count (line 31/33): metadata is built and
\* logUpload's push is issued
StoreReturned(count) ==
  /\ recordCount' = count
  /\ pc' = "log_upload"

\* the store rejected (lines 36-38): the error is dropped, the count falls
\* back to the payload's length, and logUpload's push is issued
StoreThrew(error, data) ==
  /\ caught' = error
  /\ recordCount' = FallbackCount(data)
  /\ pc' = "log_upload"

\* a call of analyzeAndStoreJSON, lines 11-34, down to the first request
\* that is awaited; the call's locals start afresh
Ingest(data, fname) ==
  /\ jsonData' = data
  /\ filename' = fname
  /\ analysis' = analyzeJSONSchema(data)
  /\ IF analysis'.threw
     THEN \* outer catch (line 71): logError's push is issued
          /\ caught' = analysis'.error
          /\ pc' = "log_error"
          /\ tableName' = ""
          /\ store' = NoStore
          /\ recordCount' = 0
     ELSE LET begun == IF analysis'.useSQL THEN PgBegin(data)
                       ELSE MongoBegin(data)
          IN /\ tableName' = TableName(fname)
             /\ store' = begun.store
             /\ IF begun.kind = "await"
                THEN /\ pc' = IF analysis'.useSQL THEN "pg_create"
                              ELSE "mongo_insert"
                     /\ recordCount' = 0
                     /\ caught' = ""
                ELSE IF begun.kind = "return"
                THEN StoreReturned(begun.count) /\ caught' = ""
                ELSE StoreThrew(begun.error, data)
  /\ calls' = calls \o <<"analyzeJSONSchema">>
              \o (IF analysis'.threw THEN <<>>
                  ELSE IF analysis'.useSQL THEN <<"storeInPostgreSQL">>
                  ELSE <<"storeInMongoDB">>)
              \o <<Issued(pc')>>
  /\ UNCHANGED <<connVars, backendVars, logVars>>

\* analyzeAndStoreJSON(data, fname) called on its own
IngestStart(data, fname) ==
  /\ pc = "idle"
  /\ Ingest(data, fname)
  /\ UNCHANGED <<result, peerVars, routeVars>>

\* item[col], then JSON.stringify for an object or array value (lines
\* 293-299).  A missing property is undefined; the text of a serialized
\* value is kept as a "jsontext" holding that value.
Undefined == [t |-> "undefined", v |-> 0, k |-> <<>>, c |-> <<>>]
ColumnValue(item, col) ==
  LET keys == ObjectKeys(item)
      at == {i \in 1..Len(keys) : keys[i] = col}
      val == IF at = {} THEN Undefined
             ELSE ObjectValues(item)[CHOOSE i \in at : TRUE]
  IN IF IsObjectLike(val)
     THEN [t |-> "jsontext", v |-> 0, k |-> <<>>, c |-> <<val>>]
     ELSE val

\* the loop of lines 292-309 reaches item number store.next: its values are
\* computed (item[col] throws on a null item) and the INSERT is issued, or
\* the loop is over and insertedCount is returned
PgLoop(st) ==
  IF st.next > Len(st.items)
  THEN /\ StoreReturned(st.insertedCount)
       /\ UNCHANGED caught
  ELSE IF st.items[st.next].t = "null" /\ Len(st.columns) > 0
  THEN StoreThrew("Cannot read properties of null", jsonData)
  ELSE /\ pc' = "pg_insert"
       /\ UNCHANGED <<recordCount, caught>>

\* an unquoted SQL identifier: a letter or '_', then letters, digits, '_'
IsIdentifier(name) ==
  /\ Len(name) > 0
  /\ Head(name) \in Letters \cup {"_"}
  /\ \A i \in 1..Len(name) : SubSeq(name, i, i) \in WordChars

\* the statement of lines 279-285 is well-formed SQL: the table name and
\* the column names are spliced in unquoted and the column list may not be
\* empty ("id SERIAL PRIMARY KEY, , created_at ...").  (Reserved words are
\* not modelled.)
CreateStatementValid(name, columns) ==
  /\ IsIdentifier(name)
  /\ columns # <<>>
  /\ \A i \in 1..Len(columns) : IsIdentifier(columns[i].name)

\* a request may fail for reasons of its own (network, server)
ConnectionError == "connection error"

\* Faulty variant of PgCreateAnswers: CREATE TABLE without IF NOT EXISTS
PgCreateAnswers_NotIfAbsent(tables, name, columns) ==
  (IF ~CreateStatementValid(name, columns) THEN {"syntax error"}
   ELSE IF name \in DOMAIN tables THEN {"relation already exists"}
   ELSE IF \E i \in 1..Len(columns) :
             columns[i].name \in {"id", "created_at"}
   THEN {"column specified more than once"}
   ELSE {""})
  \cup {ConnectionError}

\* the relational backend's answers to the CREATE TABLE IF NOT EXISTS of
\* lines 279-285 ("" is success): a malformed statement is rejected; on an
\* existing table the statement does nothing; a new table may not repeat the
\* generated columns
PgCreateAnswers(tables, name, columns) ==
  (IF ~CreateStatementValid(name, columns) THEN {"syntax error"}
   ELSE IF /\ name \notin DOMAIN tables
           /\ \E i \in 1..Len(columns) :
                columns[i].name \in {"id", "created_at"}
   THEN {"column specified more than once"}
   ELSE {""})
  \cup {ConnectionError}

PgCreate(tables, name, columns) ==
  IF name \in DOMAIN tables THEN tables
  ELSE tables @@ (name :> [columns |-> columns, rows |-> <<>>])

\* the input a column of a type takes from a parameter: NULL anywhere,
\* anything as TEXT, a number as NUMERIC, a boolean (or 0, 1) as BOOLEAN,
\* serialized JSON (or a number or boolean literal) as JSONB
PgAccepts(pgType, val) ==
  \/ val.t \in {"undefined", "null"}
  \/ pgType = "TEXT"
  \/ pgType = "NUMERIC" /\ val.t = "number"
  \/ pgType = "BOOLEAN"
       /\ (val.t = "boolean" \/ (val.t = "number" /\ val.v \in {0, 1}))
  \/ pgType = "JSONB" /\ val.t \in {"jsontext", "number", "boolean"}

\* the backend's answers to the INSERT of lines 303-306 ("" is success)
PgInsertAnswers(tables, name, names, values) ==
  (IF name \notin DOMAIN tables THEN {"relation does not exist"}
   ELSE LET columns == tables[name].columns
            typeOf(col) ==
              columns[CHOOSE i \in 1..Len(columns) : columns[i].name = col]
                .pgType
        IN IF \E j \in 1..Len(names) :
                \A i \in 1..Len(columns) : columns[i].name # names[j]
           THEN {"column does not exist"}
           ELSE IF \E j \in 1..Len(names) :
                     ~PgAccepts(typeOf(names[j]), values[j])
           THEN {"invalid input syntax"}
           ELSE {""})
  \cup {ConnectionError}

\* the row an INSERT adds: id from the sequence, created_at by default
PgInsert(tables, name, names, values, now) ==
  [tables EXCEPT ![name].rows =
     Append(@, [id |-> Len(@) + 1, cols |-> names, vals |-> values,
                created_at |-> now])]

\* CREATE TABLE IF NOT EXISTS answered (lines 279-287)
PgCreateDone ==
  /\ pc = "pg_create"
  /\ \E answer \in PgCreateAnswers(pgTables, tableName, store.columns) :
       IF answer = ""
       THEN /\ pgTables' = PgCreate(pgTables, tableName, store.columns)
            /\ PgLoop(store)
       ELSE /\ StoreThrew(answer, jsonData)
            /\ UNCHANGED pgTables
  /\ calls' = Append(calls, Issued(pc'))
  /\ UNCHANGED <<connVars, mongoColls, clock, logVars, callVars, store,
                 result, peerVars,
                 routeVars>>

\* the column names and the values array of lines 289-299
InsertNames(st) == [i \in 1..Len(st.columns) |-> st.columns[i].name]
InsertValues(st) ==
  [i \in 1..Len(st.columns) |->
     ColumnValue(st.items[st.next], st.columns[i].name)]

\* Faulty variant of PgInsertDone: a failed INSERT rolls the call's rows back
PgInsertDone_RollsBack ==
  /\ pc = "pg_insert"
  /\ \E answer \in PgInsertAnswers(pgTables, tableName, InsertNames(store),
                                   InsertValues(store)) :
       IF answer = ""
       THEN LET st == [store EXCEPT !.next = @ + 1, !.insertedCount = @ + 1]
            IN /\ clock' = clock + 1
               /\ pgTables' = PgInsert(pgTables, tableName, InsertNames(store),
                                       InsertValues(store), clock')
               /\ store' = st
               /\ PgLoop(st)
       ELSE /\ StoreThrew(answer, jsonData)
            /\ pgTables' =
                 IF tableName \in DOMAIN pgTables
                 THEN [pgTables EXCEPT ![tableName].rows =
                         SubSeq(@, 1, Len(@) - store.insertedCount)]
                 ELSE pgTables
            /\ UNCHANGED <<clock, store>>
  /\ calls' = Append(calls, Issued(pc'))
  /\ UNCHANGED <<connVars, mongoColls, logVars, callVars, result, peerVars,
                 routeVars>>

\* Faulty variant of PgInsertDone: a failed INSERT is skipped and the loop goes on
PgInsertDone_SkipsFailures ==
  /\ pc = "pg_insert"
  /\ \E answer \in PgInsertAnswers(pgTables, tableName, InsertNames(store),
                                   InsertValues(store)) :
       IF answer = ""
       THEN LET st == [store EXCEPT !.next = @ + 1, !.insertedCount = @ + 1]
            IN /\ clock' = clock + 1
               /\ pgTables' = PgInsert(pgTables, tableName, InsertNames(store),
                                       InsertValues(store), clock')
               /\ store' = st
               /\ PgLoop(st)
       ELSE LET st == [store EXCEPT !.next = @ + 1]
            IN /\ store' = st
               /\ PgLoop(st)
               /\ UNCHANGED <<pgTables, clock>>
  /\ calls' = Append(calls, Issued(pc'))
  /\ UNCHANGED <<connVars, mongoColls, logVars, callVars, result, peerVars,
                 routeVars>>

\* INSERT INTO answered (lines 303-308)
PgInsertDone ==
  /\ pc = "pg_insert"
  /\ \E answer \in PgInsertAnswers(pgTables, tableName, InsertNames(store),
                                   InsertValues(store)) :
       IF answer = ""
       THEN LET st == [store EXCEPT !.next = @ + 1, !.insertedCount = @ + 1]
            IN /\ clock' = clock + 1
               /\ pgTables' = PgInsert(pgTables, tableName, InsertNames(store),
                                       InsertValues(store), clock')
               /\ store' = st
               /\ PgLoop(st)
       ELSE /\ StoreThrew(answer, jsonData)
            /\ UNCHANGED <<pgTables, clock, store>>
  /\ calls' = Append(calls, Issued(pc'))
  /\ UNCHANGED <<connVars, mongoColls, logVars, callVars, result, peerVars,
                 routeVars>>

\* collection.insertMany answered (lines 355-358).  An ordered insertMany
\* that fails has written the documents before the failing one; an empty
\* collection name is rejected outright.
MongoInsertDone ==
  /\ pc = "mongo_insert"
  /\ LET old == IF tableName \in DOMAIN mongoColls THEN mongoColls[tableName]
                ELSE <<>>
         put(docs) ==
           IF tableName \in DOMAIN mongoColls
           THEN [mongoColls EXCEPT ![tableName] = old \o docs]
           ELSE mongoColls @@ (tableName :> docs)
     IN \E written \in (IF tableName = "" THEN {0} ELSE 0..Len(store.docs)) :
          IF written = Len(store.docs)
          THEN /\ mongoColls' = put(store.docs)
               /\ StoreReturned(Len(store.docs))
               /\ UNCHANGED caught
          ELSE /\ mongoColls' = IF written = 0 THEN mongoColls
                                ELSE put(SubSeq(store.docs, 1, written))
               /\ StoreThrew("insertMany failed", jsonData)
  /\ calls' = Append(calls, Issued(pc'))
  /\ UNCHANGED <<connVars, pgTables, clock, logVars, callVars, store, result,
                 peerVars,
                 routeVars>>

\* Faulty variant of LogUploadDone: the record is emitted twice
LogUploadDone_EmitsTwice ==
  /\ pc = "log_upload"
  /\ \E ok \in BOOLEAN :
       IF ok
       THEN uploads' = uploads \o <<Metadata, Metadata>> /\ UNCHANGED console
       ELSE console' = Append(console, Metadata) /\ UNCHANGED uploads
  /\ result' = Processed
  /\ pc' = "done"
  /\ calls' = Append(calls, Issued(pc'))
  /\ UNCHANGED <<connVars, backendVars, errors, callVars, store, recordCount,
                 caught, peerVars,
                 routeVars>>

\* Faulty variant of LogUploadDone: a failed push makes the call fail
LogUploadDone_PushFailureFails ==
  /\ pc = "log_upload"
  /\ \E ok \in BOOLEAN :
       IF ok
       THEN /\ uploads' = Append(uploads, Metadata)
            /\ result' = Processed
            /\ UNCHANGED console
       ELSE /\ console' = Append(console, Metadata)
            /\ result' = [success |-> FALSE, filename |-> filename,
                          status |-> "failed", error |-> "push failed"]
            /\ UNCHANGED uploads
  /\ pc' = "done"
  /\ calls' = Append(calls, Issued(pc'))
  /\ UNCHANGED <<connVars, backendVars, errors, callVars, store, recordCount,
                 caught, peerVars,
                 routeVars>>

\* logUpload (logger.js 8-30): the push is answered, or it failed and the
\* record goes to the console; either way analyzeAndStoreJSON returns the
\* 'processed' result
LogUploadDone ==
  /\ pc = "log_upload"
  /\ \E ok \in BOOLEAN :
       IF ok
       THEN uploads' = Append(uploads, Metadata) /\ UNCHANGED console
       ELSE console' = Append(console, Metadata) /\ UNCHANGED uploads
  /\ result' = Processed
  /\ pc' = "done"
  /\ calls' = Append(calls, Issued(pc'))
  /\ UNCHANGED <<connVars, backendVars, errors, callVars, store, recordCount,
                 caught, peerVars,
                 routeVars>>

\* logError (logger.js 37-56), then the 'failed' result (lines 81-86)
LogErrorDone ==
  /\ pc = "log_error"
  /\ LET record == [message |-> caught,
                    context |-> [filename |-> filename,
                                 stage |-> "json_processing",
                                 dataType |-> TypeOf(jsonData)]]
     IN \E ok \in BOOLEAN :
          IF ok
          THEN errors' = Append(errors, record) /\ UNCHANGED console
          ELSE console' = Append(console, record) /\ UNCHANGED errors
  /\ result' = Failed
  /\ pc' = "done"
  /\ calls' = Append(calls, Issued(pc'))
  /\ UNCHANGED <<connVars, backendVars, uploads, callVars, store, recordCount,
                 caught, peerVars,
                 routeVars>>

Next ==
  \/ MongoConnected
  \/ MongoConnectFailed
  \/ \E input \in Inputs : IngestStart(input[1], input[2])
  \/ PgCreateDone
  \/ PgInsertDone
  \/ MongoInsertDone
  \/ LogUploadDone
  \/ LogErrorDone

Spec == Init /\ [][Next]_vars

(***************************************************************************)
(* The query and delete adapter functions, called directly (they are       *)
(* exported; deleteFromDatabase reaches the two delete functions).  One    *)
(* call is followed from its entry to its result; adapterCall holds        *)
(*   fn, name, limit   the function and its arguments                      *)
(*   pc                "idle" | "await" (a request is out) | "done"        *)
(*   issuedAt          where analyzeAndStoreJSON stood when it was entered *)
(*   threw, error      the promise was rejected, and with what             *)
(*   value             the rows or documents it resolved to                *)
(***************************************************************************)
MaxLimit == 3
Limits == 0..MaxLimit
TargetNames == {"users", "orders"}

\* the request a function sends once its guard is passed
Request(fn) ==
  CASE fn = "queryPostgreSQL" -> "pg.SELECT"
    [] fn = "queryMongoDB" -> "mongo.find"
    [] fn = "deleteFromPostgreSQL" -> "pg.DROP TABLE"
    [] fn = "deleteFromMongoDB" -> "mongo.drop"

\* Faulty variant of CallStart: the request is sent whatever the connection
CallStart_Unguarded(fn, name, limit, configured, notConfigured) ==
  /\ adapterCall.pc = "idle"
  /\ adapterCall' =
       [fn |-> fn, name |-> name, limit |-> limit, issuedAt |-> pc,
        pc |-> "await", threw |-> FALSE, error |-> "", value |-> <<>>]
  /\ calls' = calls \o <<fn, Request(fn)>>
  /\ UNCHANGED <<connVars, backendVars, logVars, pc, callVars, store,
                 recordCount, caught, result, second,
                 routeVars>>

\* entry of an adapter function: the guard on the connection, then the
\* request
CallStart(fn, name, limit, configured, notConfigured) ==
  /\ adapterCall.pc = "idle"
  /\ adapterCall' =
       [fn |-> fn, name |-> name, limit |-> limit, issuedAt |-> pc,
        pc |-> IF configured THEN "await" ELSE "done",
        threw |-> ~configured,
        error |-> IF configured THEN "" ELSE notConfigured,
        value |-> <<>>]
  /\ calls' = calls \o <<fn>> \o (IF configured THEN <<Request(fn)>> ELSE <<>>)
  /\ UNCHANGED <<connVars, backendVars, logVars, pc, callVars, store,
                 recordCount, caught, result, second,
                 routeVars>>

\* the awaited request was answered: the call resolves to value, or
\* is rejected with error
CallDone(error, value) ==
  /\ adapterCall' = [adapterCall EXCEPT !.pc = "done", !.threw = error # "",
                                        !.error = error, !.value = value]
  /\ UNCHANGED <<connVars, logVars, pc, callVars, store, recordCount, caught,
                 result, calls, clock, second,
                 routeVars>>

Awaiting(fn) == adapterCall.pc = "await" /\ adapterCall.fn = fn

\* queryPostgreSQL lines 369-373
QueryPgStart(name, limit) ==
  CallStart("queryPostgreSQL", name, limit, pgPool,
            "PostgreSQL not configured")

RECURSIVE OrderByCreatedAtDesc(_)
\* ORDER BY created_at DESC
OrderByCreatedAtDesc(rows) ==
  IF rows = <<>> THEN <<>>
  ELSE LET latest == CHOOSE i \in 1..Len(rows) :
                       \A j \in 1..Len(rows) :
                         rows[j].created_at <= rows[i].created_at
           rest == [j \in 1..(Len(rows) - 1) |->
                      IF j < latest THEN rows[j] ELSE rows[j + 1]]
       IN <<rows[latest]>> \o OrderByCreatedAtDesc(rest)

\* LIMIT n
Limit(rows, n) == SubSeq(rows, 1, Min(n, Len(rows)))

\* Faulty variant of QueryPgDone: the rows come back in insertion order
QueryPgDone_Unordered ==
  /\ Awaiting("queryPostgreSQL")
  /\ \E answer \in
          (IF ~IsIdentifier(adapterCall.name) THEN {"syntax error"}
           ELSE IF adapterCall.name \notin DOMAIN pgTables
           THEN {"relation does not exist"}
           ELSE {""}) \cup {ConnectionError} :
       CallDone(answer,
                IF answer # "" THEN <<>>
                ELSE Limit(pgTables[adapterCall.name].rows,
                           adapterCall.limit))
  /\ UNCHANGED <<pgTables, mongoColls>>

\* the SELECT of lines 374-377 answered, line 379
QueryPgDone ==
  /\ Awaiting("queryPostgreSQL")
  /\ \E answer \in
          (IF ~IsIdentifier(adapterCall.name) THEN {"syntax error"}
           ELSE IF adapterCall.name \notin DOMAIN pgTables
           THEN {"relation does not exist"}
           ELSE {""}) \cup {ConnectionError} :
       CallDone(answer,
                IF answer # "" THEN <<>>
                ELSE Limit(OrderByCreatedAtDesc(
                             pgTables[adapterCall.name].rows),
                           adapterCall.limit))
  /\ UNCHANGED <<pgTables, mongoColls>>

\* queryMongoDB lines 385-389
QueryMongoStart(name, limit) ==
  CallStart("queryMongoDB", name, limit, mongoDb, "MongoDB not configured")

\* find({}).sort({created_at: -1}): the documents, latest first, those of
\* equal created_at in any order
SortByCreatedAtDesc(docs) ==
  {sorted \in {[i \in 1..Len(docs) |-> docs[f[i]]] :
                 f \in Permutations(1..Len(docs))} :
     \A i \in 1..Len(docs) : \A j \in i..Len(docs) :
       Get(sorted[i], "created_at").v >= Get(sorted[j], "created_at").v}

\* the cursor of lines 390-395 answered, line 397; limit(0) is no limit
QueryMongoDone ==
  /\ Awaiting("queryMongoDB")
  /\ LET docs == IF adapterCall.name \in DOMAIN mongoColls
                 THEN mongoColls[adapterCall.name] ELSE <<>>
         n == IF adapterCall.limit = 0 THEN Len(docs) ELSE adapterCall.limit
     IN \/ CallDone(ConnectionError, <<>>)
        \/ \E sorted \in SortByCreatedAtDesc(docs) :
             CallDone("", Limit(sorted, n))
  /\ UNCHANGED <<pgTables, mongoColls>>

\* deleteFromPostgreSQL lines 403-406
DropPgStart(name) ==
  CallStart("deleteFromPostgreSQL", name, 0, pgPool,
            "PostgreSQL not configured")

\* a function without its value at name
Without(f, name) == [n \in DOMAIN f \ {name} |-> f[n]]

\* DROP TABLE IF EXISTS ... CASCADE answered (lines 408-415): an error is
\* rethrown
DropPgDone ==
  /\ Awaiting("deleteFromPostgreSQL")
  /\ \E answer \in
          (IF IsIdentifier(adapterCall.name) THEN {""} ELSE {"syntax error"})
          \cup {ConnectionError} :
       /\ CallDone(answer, <<>>)
       /\ pgTables' = IF answer = "" THEN Without(pgTables, adapterCall.name)
                      ELSE pgTables
  /\ UNCHANGED mongoColls

\* deleteFromMongoDB lines 421-424
DropMongoStart(name) ==
  CallStart("deleteFromMongoDB", name, 0, mongoDb, "MongoDB not configured")

\* the backend's answers to collection.drop(): a missing collection is
\* reported as 'ns not found' or, by later servers, dropped without error
MongoDropAnswers(colls, name) ==
  (IF name \in DOMAIN colls THEN {""} ELSE {"", "ns not found"})
  \cup {ConnectionError}

\* error.message.includes('ns not found')
IsNsNotFound(message) == message = "ns not found"

\* Faulty variant of DropMongoDone: every error of drop() is rethrown
DropMongoDone_Rethrows ==
  /\ Awaiting("deleteFromMongoDB")
  /\ \E answer \in MongoDropAnswers(mongoColls, adapterCall.name) :
       /\ CallDone(answer, <<>>)
       /\ mongoColls' = IF answer = ""
                        THEN Without(mongoColls, adapterCall.name)
                        ELSE mongoColls
  /\ UNCHANGED pgTables

\* collection.drop() answered (lines 426-439): 'ns not found' is taken as
\* success, any other error is rethrown
DropMongoDone ==
  /\ Awaiting("deleteFromMongoDB")
  /\ \E answer \in MongoDropAnswers(mongoColls, adapterCall.name) :
       /\ CallDone(IF IsNsNotFound(answer) THEN "" ELSE answer, <<>>)
       /\ mongoColls' = IF answer = ""
                        THEN Without(mongoColls, adapterCall.name)
                        ELSE mongoColls
  /\ UNCHANGED pgTables

\* the ingestions the direct calls are explored against: two and three
\* relational rows, two documents, nothing, and one that analysis rejects
CallInputs ==
  {JArr(<<Obj2("user_id", JNum(1), "name", JStr(1)),
          Obj2("user_id", JNum(2), "name", JStr(1))>>),
   JArr(<<Obj1("a", JNum(1)), Obj1("a", JNum(1)), Obj1("a", JNum(1))>>),
   Obj1("orders", JArr(<<Obj1("a", JArr(<<>>)), Obj1("a", JArr(<<>>))>>)),
   JArr(<<>>), JArr(<<JNull>>)}
  \X {BaseName}

NextCalls ==
  \/ MongoConnected
  \/ MongoConnectFailed
  \/ \E input \in CallInputs : IngestStart(input[1], input[2])
  \/ PgCreateDone
  \/ PgInsertDone
  \/ MongoInsertDone
  \/ LogUploadDone
  \/ LogErrorDone
  \/ \E name \in TargetNames : \E limit \in Limits : QueryPgStart(name, limit)
  \/ QueryPgDone
  \/ \E name \in TargetNames : \E limit \in Limits :
       QueryMongoStart(name, limit)
  \/ QueryMongoDone
  \/ \E name \in TargetNames : DropPgStart(name)
  \/ DropPgDone
  \/ \E name \in TargetNames : DropMongoStart(name)
  \/ DropMongoDone

\* one ingestion and one direct adapter call, interleaved
SpecCalls == Init /\ [][NextCalls]_vars

(***************************************************************************)
(* A second storeInPostgreSQL(data, tableName) call (part of another       *)
(* ingestion) running while the first is awaiting.  second holds           *)
(*   pc                 "idle" | "pg_create" | "pg_insert" | "done"        *)
(*   data, tableName    its arguments                                      *)
(*   store              its locals                                         *)
(*   threw, error       the promise was rejected, and with what            *)
(*   count              the count it resolved to                           *)
(* The backend answers one statement at a time.                            *)
(***************************************************************************)
\* lines 292-309 at item number st.next of the second call: the INSERT is
\* issued, or item[col] throws on a null item, or the loop is over
SecondLoop(st) ==
  IF st.next > Len(st.items)
  THEN [second EXCEPT !.pc = "done", !.store = st,
                      !.count = st.insertedCount]
  ELSE IF st.items[st.next].t = "null" /\ Len(st.columns) > 0
  THEN [second EXCEPT !.pc = "done", !.store = st, !.threw = TRUE,
                      !.error = "Cannot read properties of null"]
  ELSE [second EXCEPT !.pc = "pg_insert", !.store = st]

\* the second call is rejected with error
SecondThrew(error) ==
  [second EXCEPT !.pc = "done", !.threw = TRUE, !.error = error]

\* storeInPostgreSQL lines 235-285
SecondStart(data, name) ==
  /\ second.pc = "idle"
  /\ LET begun == PgBegin(data)
     IN second' =
          [pc |-> IF begun.kind = "await" THEN "pg_create" ELSE "done",
           data |-> data, tableName |-> name, store |-> begun.store,
           threw |-> begun.kind = "throw", error |-> begun.error,
           count |-> begun.count]
  /\ UNCHANGED <<connVars, backendVars, logVars, pc, callVars, store,
                 recordCount, caught, result, calls, adapterCall,
                 routeVars>>

\* lines 279-287
SecondCreateDone ==
  /\ second.pc = "pg_create"
  /\ \E answer \in PgCreateAnswers(pgTables, second.tableName,
                                   second.store.columns) :
       IF answer = ""
       THEN /\ pgTables' = PgCreate(pgTables, second.tableName,
                                    second.store.columns)
            /\ second' = SecondLoop(second.store)
       ELSE /\ second' = SecondThrew(answer)
            /\ UNCHANGED pgTables
  /\ UNCHANGED <<connVars, mongoColls, clock, logVars, pc, callVars, store,
                 recordCount, caught, result, calls, adapterCall,
                 routeVars>>

\* lines 303-308
SecondInsertDone ==
  /\ second.pc = "pg_insert"
  /\ \E answer \in PgInsertAnswers(pgTables, second.tableName,
                                   InsertNames(second.store),
                                   InsertValues(second.store)) :
       IF answer = ""
       THEN /\ clock' = clock + 1
            /\ pgTables' = PgInsert(pgTables, second.tableName,
                                    InsertNames(second.store),
                                    InsertValues(second.store), clock')
            /\ second' = SecondLoop([second.store EXCEPT
                                       !.next = @ + 1,
                                       !.insertedCount = @ + 1])
       ELSE /\ second' = SecondThrew(answer)
            /\ UNCHANGED <<pgTables, clock>>
  /\ UNCHANGED <<connVars, mongoColls, logVars, pc, callVars, store,
                 recordCount, caught, result, calls, adapterCall,
                 routeVars>>

\* the datasets of the two racing calls: two and three rows over the same
\* column, two over another set of columns, the same column name with
\* another type, one item with a boolean, a null, an object and an array,
\* a dataset whose second item does not fit its first, and edge cases
RaceData ==
  {JArr(<<Obj1("a", JNum(1)), Obj1("a", JNum(1))>>),
   JArr(<<Obj1("a", JNum(1)), Obj1("a", JNum(1)), Obj1("a", JNum(1))>>),
   JArr(<<Obj2("user_id", JNum(1), "name", JStr(1)),
          Obj2("user_id", JNum(2), "name", JStr(1))>>),
   JArr(<<Obj2("user_id", JNum(2), "name", JStr(1)),
          Obj2("user_id", JNum(1), "name", JStr(1))>>),
   JArr(<<Obj1("a", JStr(2))>>),
   JArr(<<Obj1("a", JNum(1)), Obj1("a", JStr(2))>>),
   JArr(<<Obj1("a", JNum(1)), JNull>>),
   JArr(<<JObj(<<"a", "b", "c", "d">>,
               <<JBool(TRUE), JNull, Obj1("a", JNum(1)), JArr(<<>>)>>)>>),
   JArr(<<>>), JNull, Obj1("orders", JArr(<<Obj1("a", JArr(<<>>))>>))}

NextRace ==
  \/ MongoConnected
  \/ MongoConnectFailed
  \/ \E data \in RaceData : IngestStart(data, BaseName)
  \/ PgCreateDone
  \/ PgInsertDone
  \/ MongoInsertDone
  \/ LogUploadDone
  \/ LogErrorDone
  \/ \E data \in RaceData : \E name \in TargetNames : SecondStart(data, name)
  \/ SecondCreateDone
  \/ SecondInsertDone

\* one ingestion and a second relational store, interleaved
SpecRace == Init /\ [][NextRace]_vars

(***************************************************************************)
(* DELETE /files/:id (routes/data.js 74-120).  The upload log is the       *)
(* sequence uploads, a record's key its position there; a removed record   *)
(* keeps its position and has its key in removed.                          *)
(***************************************************************************)
MaxId == 3          \* the keys a DELETE request may name

ingestVars == <<pc, callVars, store, recordCount, caught, result, calls>>

\* the record processMediaFile logs for an upload (part_004 528-549)
MediaRecord(publicId) ==
  [type |-> "media", filename |-> "cat.png", public_id |-> publicId,
   mime_type |-> "image/png"]

\* what earlier runs may have left: nothing; a media record and its blob;
\* a media record whose blob is not in the media store
StoredLogs ==
  {[uploads |-> <<>>, blobs |-> {}],
   [uploads |-> <<MediaRecord("img1")>>, blobs |-> {"img1"}],
   [uploads |-> <<MediaRecord("img1")>>, blobs |-> {}]}

InitDelete ==
  \E log \in StoredLogs : \E initialized \in BOOLEAN :
    Loaded(log.uploads, log.blobs, initialized)

\* snapshot.exists()
Exists(id) == id \in 1..Len(uploads) /\ id \notin removed

\* fileData.public_id, fileData.table_name as conditions
Truthy(fileData, field) == field \in DOMAIN fileData /\ fileData[field] # ""

\* deleteFromDatabase (part_004 447-455) and the guard of the function it
\* calls (403-406, 421-424): the error thrown before any request, or ""
deleteFromDatabase(dbType) ==
  IF dbType = "PostgreSQL"
  THEN IF pgPool THEN "" ELSE "PostgreSQL not configured"
  ELSE IF dbType = "MongoDB"
  THEN IF mongoDb THEN "" ELSE "MongoDB not configured"
  ELSE "Unknown database type"

\* res.status(status).json(...)
Respond(status) ==
  deletion' = [deletion EXCEPT !.pc = "done", !.status = status,
                               !.steps = Append(@, "respond")]

\* lines 76-80: the record is read
DeleteStart(id) ==
  /\ deletion.pc = "idle"
  /\ deletion' = [NoDeletion EXCEPT !.pc = "read", !.id = id,
                                    !.steps = <<"once">>]
  /\ UNCHANGED <<connVars, backendVars, logVars, ingestVars, peerVars,
                 removed, blobs, cloudinaryInitialized, batch>>

\* lines 86-108 for the record read, down to the next request awaited
AfterRead(fileData) ==
  IF fileData.type = "media" /\ Truthy(fileData, "public_id")
  THEN IF cloudinaryInitialized
       THEN [pc |-> "blob", steps |-> <<"deleteFromCloudinary", "destroy">>,
             warned |-> ""]
       ELSE [pc |-> "remove", steps |-> <<"deleteFromCloudinary", "remove">>,
             warned |-> ""]
  ELSE IF fileData.type = "json" /\ Truthy(fileData, "table_name")
  THEN LET thrown == deleteFromDatabase(fileData.db_type)
       IN IF thrown = ""
          THEN [pc |-> "drop", steps |-> <<"deleteFromDatabase", "drop">>,
                warned |-> ""]
          ELSE [pc |-> "remove", steps |-> <<"deleteFromDatabase", "remove">>,
                warned |-> thrown]
  ELSE [pc |-> "remove", steps |-> <<"remove">>, warned |-> ""]

\* fileRef.once('value') answered (lines 80-108): 500 from the outer catch
\* when the read failed, 404 when there is no record
DeleteRead ==
  /\ deletion.pc = "read"
  /\ \E ok \in BOOLEAN :
       IF ~ok THEN Respond(500)
       ELSE IF ~Exists(deletion.id) THEN Respond(404)
       ELSE LET after == AfterRead(uploads[deletion.id])
            IN deletion' = [deletion EXCEPT !.pc = after.pc,
                                            !.steps = @ \o after.steps,
                                            !.warned = after.warned]
  /\ UNCHANGED <<connVars, backendVars, logVars, ingestVars, peerVars,
                 removed, blobs, cloudinaryInitialized, batch>>

\* the media store's answers to uploader.destroy(publicId)
DestroyAnswers(stored, publicId) ==
  (IF publicId \in stored THEN {"ok"} ELSE {"not found"})
  \cup {ConnectionError}

\* destroy answered (cloudinaryManager.js 119-134): deleteFromCloudinary
\* returns true for 'ok' and false for any other result or an error; the
\* route (lines 87-92) does not look at the value and goes on to remove
DeleteBlobDone ==
  /\ deletion.pc = "blob"
  /\ LET publicId == uploads[deletion.id].public_id
     IN \E answer \in DestroyAnswers(blobs, publicId) :
          /\ blobs' = IF answer = "ok" THEN blobs \ {publicId} ELSE blobs
          /\ deletion' = [deletion EXCEPT !.pc = "remove",
                            !.steps = @ \o <<IF answer = "ok"
                                             THEN "destroyed"
                                             ELSE "destroy failed",
                                             "remove">>]
  /\ UNCHANGED <<connVars, backendVars, logVars, ingestVars, peerVars,
                 removed, cloudinaryInitialized, batch>>

\* DROP TABLE IF EXISTS or collection.drop() answered (part_004 408-415,
\* 426-439): an error reaches the route's inner catch (lines 100-103), and
\* the route goes on to remove
DeleteDropDone ==
  /\ deletion.pc = "drop"
  /\ LET fileData == uploads[deletion.id]
         name == fileData.table_name
         gone(error) == [deletion EXCEPT !.pc = "remove",
                                         !.steps = Append(@, "remove"),
                                         !.warned = error]
     IN IF fileData.db_type = "PostgreSQL"
        THEN \E answer \in
                  (IF IsIdentifier(name) THEN {""} ELSE {"syntax error"})
                  \cup {ConnectionError} :
               /\ pgTables' = IF answer = "" THEN Without(pgTables, name)
                              ELSE pgTables
               /\ deletion' = gone(answer)
               /\ UNCHANGED mongoColls
        ELSE \E answer \in MongoDropAnswers(mongoColls, name) :
               /\ mongoColls' = IF answer = "" THEN Without(mongoColls, name)
                                ELSE mongoColls
               /\ deletion' = gone(IF IsNsNotFound(answer) THEN ""
                                   ELSE answer)
               /\ UNCHANGED pgTables
  /\ UNCHANGED <<connVars, clock, logVars, ingestVars, peerVars, removed,
                 blobs, cloudinaryInitialized, batch>>

\* fileRef.remove() answered (lines 107-114), or rejected (lines 115-118)
DeleteRemoveDone ==
  /\ deletion.pc = "remove"
  /\ \E ok \in BOOLEAN :
       IF ok THEN removed' = removed \cup {deletion.id} /\ Respond(200)
       ELSE UNCHANGED removed /\ Respond(500)
  /\ UNCHANGED <<connVars, backendVars, logVars, ingestVars, peerVars,
                 blobs, cloudinaryInitialized, batch>>

\* the ingestions a deletion is explored against: two relational rows, two
\* documents, and one that analysis rejects
DeleteInputs ==
  {JArr(<<Obj1("a", JNum(1)), Obj1("a", JNum(1))>>),
   Obj1("orders", JArr(<<Obj1("a", JArr(<<>>)), Obj1("a", JArr(<<>>))>>)),
   JArr(<<JNull>>)}
  \X {BaseName}

NextDelete ==
  \/ MongoConnected
  \/ MongoConnectFailed
  \/ \E input \in DeleteInputs : IngestStart(input[1], input[2])
  \/ PgCreateDone
  \/ PgInsertDone
  \/ MongoInsertDone
  \/ LogUploadDone
  \/ LogErrorDone
  \/ \E id \in 1..MaxId : DeleteStart(id)
  \/ DeleteRead
  \/ DeleteBlobDone
  \/ DeleteDropDone
  \/ DeleteRemoveDone

\* one ingestion and one DELETE request, interleaved, over a log that may
\* hold a media record
SpecDelete == InitDelete /\ [][NextDelete]_vars

(***************************************************************************)
(* processBatchJSONFiles (jsonProcessor.js 164-180) and POST /json with    *)
(* processJSONFilesInBackground (routes/data.js 326-364, 380-394).  The    *)
(* files are ingested by the one analyzeAndStoreJSON call of the model,    *)
(* entered anew for each file.                                             *)
(***************************************************************************)
MaxFiles == 3       \* the longest batch

\* the sequences of at most n members of set
RECURSIVE SeqsUpTo(_, _)
SeqsUpTo(set, n) ==
  IF n = 0 THEN {<<>>}
  ELSE LET shorter == SeqsUpTo(set, n - 1)
       IN shorter \cup {Append(s, x) : s \in shorter, x \in set}

\* {data, filename} objects: one relational row, one that analysis
\* rejects, one document
BatchFiles ==
  {[data |-> Obj1("a", JNum(1)), filename |-> "a.json"],
   [data |-> JArr(<<JNull>>), filename |-> "b.json"],
   [data |-> Obj2("a", JNum(1), "b", JArr(<<>>)), filename |-> "d.json"]}

\* a file's bytes: the text of a JSON value, or no JSON text at all
Text(value) == [wellFormed |-> TRUE, value |-> value]
Garbage == [wellFormed |-> FALSE, value |-> JNull]

\* JSON.parse(file.buffer.toString('utf8'))
JSONParse(buffer) ==
  IF buffer.wellFormed THEN [threw |-> FALSE, value |-> buffer.value]
  ELSE [threw |-> TRUE, value |-> JNull]

\* the files of a request, as multer hands them over
UploadedFiles ==
  {[mimetype |-> "application/json", originalname |-> "a.json",
    buffer |-> Text(Obj1("a", JNum(1)))],
   [mimetype |-> "application/json", originalname |-> "b.json",
    buffer |-> Garbage],
   [mimetype |-> "text/plain", originalname |-> "c.txt",
    buffer |-> Garbage]}

\* the test of req.files.filter (lines 333-335)
IsJSONFile(file) == file.mimetype = "application/json"

\* processBatchJSONFiles(files), to the first file's first awaited request;
\* with no file it returns [] at once
BatchStart(files) ==
  /\ batch.pc = "idle" /\ pc = "idle"
  /\ IF files = <<>>
     THEN /\ batch' = [NoBatch EXCEPT !.fn = "processBatchJSONFiles",
                                      !.pc = "done"]
          /\ UNCHANGED <<ingestVars, connVars, backendVars, logVars>>
     ELSE /\ batch' = [NoBatch EXCEPT !.fn = "processBatchJSONFiles",
                                      !.pc = "running", !.files = files,
                                      !.next = 1, !.steps = <<"start">>]
          /\ Ingest(files[1].data, files[1].filename)
          /\ UNCHANGED result
  /\ UNCHANGED <<peerVars, deletion, removed, blobs, cloudinaryInitialized>>

\* Faulty variant of BatchResume: the batch ends at the first failed file
BatchResume_StopsOnFailure ==
  /\ batch.fn = "processBatchJSONFiles" /\ batch.pc = "running"
  /\ pc = "done"
  /\ LET pushed == Append(batch.results, result)
     IN IF batch.next < Len(batch.files) /\ result.success
        THEN /\ batch' = [batch EXCEPT !.results = pushed, !.next = @ + 1,
                                       !.steps = @ \o <<"returned", "start">>]
             /\ Ingest(batch.files[batch.next + 1].data,
                       batch.files[batch.next + 1].filename)
             /\ result' = NoResult
        ELSE /\ batch' = [batch EXCEPT !.results = pushed, !.pc = "done",
                                       !.steps = Append(@, "returned")]
             /\ UNCHANGED <<ingestVars, connVars, backendVars, logVars>>
  /\ UNCHANGED <<peerVars, deletion, removed, blobs, cloudinaryInitialized>>

\* the awaited analyzeAndStoreJSON returned (lines 170-171): its result is
\* pushed and the next file is entered, or the results are returned
BatchResume ==
  /\ batch.fn = "processBatchJSONFiles" /\ batch.pc = "running"
  /\ pc = "done"
  /\ LET pushed == Append(batch.results, result)
     IN IF batch.next < Len(batch.files)
        THEN /\ batch' = [batch EXCEPT !.results = pushed, !.next = @ + 1,
                                       !.steps = @ \o <<"returned", "start">>]
             /\ Ingest(batch.files[batch.next + 1].data,
                       batch.files[batch.next + 1].filename)
             /\ result' = NoResult
        ELSE /\ batch' = [batch EXCEPT !.results = pushed, !.pc = "done",
                                       !.steps = Append(@, "returned")]
             /\ UNCHANGED <<ingestVars, connVars, backendVars, logVars>>
  /\ UNCHANGED <<peerVars, deletion, removed, blobs, cloudinaryInitialized>>

\* the first file from position from on whose bytes parse, or one past the
\* last file
NextParsed(files, from) ==
  LET parsed == {i \in from..Len(files) : ~JSONParse(files[i].buffer).threw}
  IN IF parsed = {} THEN Len(files) + 1
     ELSE CHOOSE i \in parsed : \A j \in parsed : i <= j

\* the loop of processJSONFilesInBackground from file number from on: a
\* file whose bytes do not parse is reported and passed over, the first
\* that parses is handed to analyzeAndStoreJSON
Background(b, from) ==
  LET at == NextParsed(b.files, from)
      failures == [i \in 1..(at - from) |-> "parse failed"]
  IN IF at > Len(b.files)
     THEN /\ batch' = [b EXCEPT !.pc = "done", !.next = at,
                                !.results = @ \o failures,
                                !.steps = @ \o failures]
          /\ UNCHANGED <<pc, callVars, store, recordCount, caught, calls,
                         connVars, backendVars, logVars>>
          /\ result' = NoResult
     ELSE /\ batch' = [b EXCEPT !.next = at,
                                !.results = @ \o failures,
                                !.steps = @ \o failures \o <<"start">>]
          /\ Ingest(JSONParse(b.files[at].buffer).value,
                    b.files[at].originalname)
          /\ result' = NoResult

\* POST /json (lines 326-364): 400 without a JSON file, else 202 and then
\* the background loop up to its first awaited request
PostJson(files) ==
  /\ batch.pc = "idle" /\ pc = "idle"
  /\ LET jsonFiles == SelectSeq(files, IsJSONFile)
     IN IF jsonFiles = <<>>
        THEN /\ batch' = [NoBatch EXCEPT !.fn = "POST /json", !.pc = "done",
                                         !.status = 400, !.steps = <<"400">>]
             /\ UNCHANGED <<ingestVars, connVars, backendVars, logVars>>
        ELSE Background([NoBatch EXCEPT !.fn = "POST /json",
                                        !.pc = "running",
                                        !.files = jsonFiles,
                                        !.status = 202, !.steps = <<"202">>],
                        1)
  /\ UNCHANGED <<peerVars, deletion, removed, blobs, cloudinaryInitialized>>

\* the awaited analyzeAndStoreJSON returned (lines 388-389): the file is
\* reported as completed and the loop goes on
BackgroundResume ==
  /\ batch.fn = "POST /json" /\ batch.pc = "running"
  /\ pc = "done"
  /\ Background([batch EXCEPT !.results = Append(@, "completed"),
                              !.steps = Append(@, "returned")],
                batch.next + 1)
  /\ UNCHANGED <<peerVars, deletion, removed, blobs, cloudinaryInitialized>>

NextBatch ==
  \/ MongoConnected
  \/ MongoConnectFailed
  \/ \E files \in SeqsUpTo(BatchFiles, MaxFiles) : BatchStart(files)
  \/ BatchResume
  \/ \E files \in SeqsUpTo(UploadedFiles, MaxFiles) : PostJson(files)
  \/ BackgroundResume
  \/ PgCreateDone
  \/ PgInsertDone
  \/ MongoInsertDone
  \/ LogUploadDone
  \/ LogErrorDone

\* one batch, by either entry
SpecBatch == Init /\ [][NextBatch]_vars

(***************************************************************************)
(* Properties.                                                             *)
(***************************************************************************)
\* analyzeJSONSchema has returned a decision for a dataset with items
Decided == pc # "idle" /\ ~analysis.threw /\ Len(analysis.items) > 0

\* C1: for every non-empty dataset for which decide returns, the relational
\* engine is chosen if and only if depth(firstItem) <= 2, firstItem has no
\* nested array and the items are consistent; in every other case the
\* document engine is chosen (field names play no part).
Thm_C1_EngineChoice ==
  Decided =>
    (analysis.useSQL <=>
       (analysis.depth <= 2 /\ ~analysis.hasArrays /\ analysis.isConsistent))

\* C1 witness: a consistent two-level dataset of several items went relational
Wit_C1_Relational ==
  /\ Decided /\ analysis.useSQL
  /\ analysis.depth = 2 /\ Len(analysis.items) >= 2

\* C2: first match wins.  depth > 3 gives the document engine with the
\* justification citing the depth, whatever the nested arrays, consistency
\* and field names; depth <= 3 with nested arrays gives the nested-array
\* justification, whatever the consistency.
Thm_C2_Precedence ==
  Decided =>
    /\ analysis.depth > 3 =>
         /\ ~analysis.useSQL
         /\ analysis.reason =
              "Deep nesting detected (depth: " \o ToString(analysis.depth)
              \o ") - MongoDB better suited for hierarchical data"
    /\ (analysis.depth <= 3 /\ analysis.hasArrays) =>
         /\ ~analysis.useSQL
         /\ analysis.reason =
              "Nested arrays detected - MongoDB handles dynamic arrays better"

\* C2 witness: a deep dataset that is also consistent over several items,
\* holds a nested array and has a numeric foreign-key-looking field
Wit_C2_DeepDominates ==
  /\ Decided /\ analysis.depth > 3
  /\ analysis.hasArrays /\ analysis.isConsistent
  /\ Len(analysis.items) >= 2 /\ detectRelations(analysis.schema)

\* the store of the chosen adapter rejected and the inner catch ran
StoreFailed == ~analysis.threw /\ caught # ""

\* C3: when the chosen adapter's store fails (backend not configured, table
\* creation or insert failed), ingest reports failure to its caller and
\* emits no record of a processed dataset with a record count.
Claim_C3_StoreFailureReported ==
  (pc = "done" /\ StoreFailed) =>
    /\ ~result.success
    /\ result.status = "failed"
    /\ uploads = <<>>

\* a payload that normalizes to the empty dataset
EmptyPayload(data) ==
  \/ data = JArr(<<>>)
  \/ data.t = "object" /\ Len(data.k) = 1 /\ data.c[1] = JArr(<<>>)

\* C4: a payload that normalizes to an empty dataset ends as a relational
\* outcome with record count 0, backend configured or not, and no table or
\* collection is created or written.
Claim_C4_EmptyIsZeroRecords ==
  (pc = "done" /\ EmptyPayload(jsonData)) =>
    /\ result.success
    /\ result.database = "PostgreSQL"
    /\ result.recordCount = 0
    /\ pgTables = <<>>
    /\ mongoColls = <<>>

\* C5: a null or scalar payload normalizes to the empty dataset and ends in
\* the default outcome: relational, zero records, no error, nothing
\* written.
Claim_C5_ScalarIsDefaultOutcome ==
  (pc = "done" /\ jsonData.t \in {"null", "number", "string", "boolean"}) =>
    /\ analysis.items = <<>>
    /\ result.success
    /\ result.database = "PostgreSQL"
    /\ result.recordCount = 0
    /\ caught = ""
    /\ pgTables = <<>>
    /\ mongoColls = <<>>

\* C6: for the JSON array of length 0, decide returns the relational engine
\* with the empty-dataset justification and an empty schema.
Thm_C6_EmptyArrayDecision ==
  (pc # "idle" /\ jsonData = JArr(<<>>)) =>
    /\ ~analysis.threw
    /\ analysis.useSQL
    /\ analysis.reason = "Empty dataset - defaulting to SQL"
    /\ analysis.schema = <<>>

\* C6 witness: an empty array has been analysed
Wit_C6_EmptyArray ==
  pc # "idle" /\ jsonData = JArr(<<>>) /\ analysis.useSQL

\* the payload is unwrapped: a non-array object with exactly one key whose
\* value is an array
Unwraps(data) ==
  data.t = "object" /\ Len(data.k) = 1 /\ data.c[1].t = "array"

\* the dataset of an object or array payload
NormalizedItems(data) ==
  IF Unwraps(data) THEN data.c[1].c
  ELSE IF data.t = "array" THEN data.c
  ELSE <<data>>

\* the records held by the target of the chosen engine
StoredRecords ==
  IF analysis.useSQL
  THEN IF tableName \in DOMAIN pgTables THEN pgTables[tableName].rows
       ELSE <<>>
  ELSE IF tableName \in DOMAIN mongoColls THEN mongoColls[tableName]
       ELSE <<>>

StripTrailingJson(name) ==
  IF EndsWith(name, ".json") THEN SubSeq(name, 1, Len(name) - 5) ELSE name

OnlyWordChars(name) ==
  \A i \in 1..Len(name) : SubSeq(name, i, i) \in WordChars

\* C8: the target name is the filename with a trailing '.json' (and only a
\* trailing one) removed and every character outside [A-Za-z0-9_] replaced
\* by '_'; it holds only characters of [A-Za-z0-9_].
Claim_C8_TargetName ==
  (pc # "idle" /\ ~analysis.threw) =>
    /\ tableName = ReplaceNonWord(StripTrailingJson(filename))
    /\ OnlyWordChars(tableName)

\* the key set of an item
KeySet(item) == Range(ObjectKeys(item))

\* C9: when checkSchemaConsistency returns, it returns true exactly when
\* the key set of each of items[1..min(n,10)-1] equals that of items[0]
\* (key order and the items from index 10 on play no part); at most one
\* item is consistent.
Thm_C9_Consistency ==
  Decided =>
    LET items == analysis.items
        sampled == 2..Min(Len(items), 10)
    IN /\ analysis.isConsistent =
            (\A i \in sampled : KeySet(items[i]) = KeySet(items[1]))
       /\ Len(items) <= 1 => analysis.isConsistent

\* C9 witness: a dataset of more than 10 items found consistent although
\* the item at index 10 has other keys than the first
Wit_C9_BeyondSample ==
  /\ Decided /\ analysis.isConsistent
  /\ Len(analysis.items) > 10
  /\ KeySet(analysis.items[11]) # KeySet(analysis.items[1])

\* depth as the specification defines it
RECURSIVE DepthOf(_)
DepthOf(x) ==
  LET nested == {i \in 1..Len(x.c) : x.c[i].t \in {"object", "array"}}
  IN IF x.t \notin {"object", "array"} \/ nested = {} THEN 1
     ELSE 1 + MaxOf({DepthOf(x.c[i]) : i \in nested})

\* C10: depth is an integer >= 1: 1 for a scalar, null or an object/array
\* without object/array-valued property, else 1 + the maximum depth of its
\* object/array-valued properties; depth({}) = 1, depth({a:1}) = 1,
\* depth({a:{b:1}}) = 2.
Thm_C10_Depth ==
  Decided =>
    LET firstItem == analysis.items[1]
    IN /\ analysis.depth >= 1
       /\ analysis.depth = DepthOf(firstItem)
       /\ firstItem = JObj(<<>>, <<>>) => analysis.depth = 1
       /\ firstItem = Obj1("a", JNum(1)) => analysis.depth = 1
       /\ (firstItem.t = "object" /\ Len(firstItem.k) = 1
             /\ firstItem.c[1].t = "object"
             /\ \A i \in 1..Len(firstItem.c[1].c) :
                  ~IsObjectLike(firstItem.c[1].c[i])) =>
            analysis.depth = 2

\* C10 witness: the depth of a four-level object was computed
Wit_C10_FourLevels ==
  /\ Decided /\ analysis.depth = 4
  /\ analysis.items[1] = Obj1("a", Obj1("b", Obj1("c", Obj1("d", JNum(1)))))

\* some field of the first item has a name ending in '_id', 'Id', '_ref' or
\* 'Ref' and a value of type number
FirstItemHasForeignKey ==
  LET first == analysis.items[1]
      keys == ObjectKeys(first)
      vals == ObjectValues(first)
  IN \E i \in 1..Len(keys) :
       /\ \/ EndsWith(keys[i], "_id") \/ EndsWith(keys[i], "Id")
          \/ EndsWith(keys[i], "_ref") \/ EndsWith(keys[i], "Ref")
       /\ vals[i].t = "number"

UsersExample ==
  JArr(<<Obj2("user_id", JNum(1), "name", JStr(1)),
         Obj2("user_id", JNum(2), "name", JStr(1))>>)

\* C11: when a non-empty dataset is routed to the relational engine, the
\* justification is the foreign-key one exactly when some field of the first
\* item has a name ending in '_id', 'Id', '_ref' or 'Ref' and a number value,
\* and the flat-consistent-structure one otherwise; the two-user example
\* under 'users.json' is relational, cites foreign keys and targets 'users'.
Thm_C11_Justification ==
  /\ (Decided /\ analysis.useSQL) =>
       analysis.reason =
         IF FirstItemHasForeignKey
         THEN "Relational pattern detected (foreign keys) - PostgreSQL better for joins and relationships"
         ELSE "Flat structure (depth: " \o ToString(analysis.depth)
              \o ") with consistent schema - PostgreSQL optimal for relational queries"
  /\ (pc # "idle" /\ jsonData = UsersExample /\ filename = "users.json") =>
       /\ ~analysis.threw /\ analysis.useSQL
       /\ analysis.reason =
            "Relational pattern detected (foreign keys) - PostgreSQL better for joins and relationships"
       /\ tableName = "users"

\* the two-user example is ingested under 'users.json': relational, with a
\* numeric 'user_id' in its first item
Wit_C11_ForeignKeyCited ==
  /\ pc # "idle" /\ jsonData = UsersExample /\ filename = "users.json"
  /\ Decided /\ analysis.useSQL /\ FirstItemHasForeignKey

\* the storage write succeeded, then the push of the result record failed
LogUploadFailed ==
  /\ pc = "done" /\ ~analysis.threw /\ caught = ""
  /\ console # <<>>

\* C12: a failure to append the result record to the event log never changes
\* the ingestion outcome: when the storage write succeeded, the call still
\* returns success with the engine decided, the target name and the count
\* the store returned, and the failure shows only on the console, where the
\* record is written instead (nothing goes to the error stream).
Thm_C12_LogFailureHarmless ==
  LogUploadFailed =>
    /\ result.success /\ result.status = "processed"
    /\ result.database = DbType
    /\ result.tableName = TableName(filename)
    /\ result.recordCount = recordCount
    /\ IsObjectLike(jsonData) =>
         result.recordCount = Len(NormalizedItems(jsonData))
    /\ console = <<Metadata>>
    /\ uploads = <<>> /\ errors = <<>>

\* the two-user example was stored, and the push of its record then failed
Wit_C12_StoredThenLogFailed ==
  /\ LogUploadFailed
  /\ jsonData = UsersExample
  /\ Len(StoredRecords) = 2

PgRequests == {"pg.CREATE TABLE", "pg.INSERT", "pg.SELECT", "pg.DROP TABLE"}
MongoRequests == {"mongo.insertMany", "mongo.find", "mongo.drop"}
PgFunctions == {"storeInPostgreSQL", "queryPostgreSQL", "deleteFromPostgreSQL"}
MongoFunctions == {"storeInMongoDB", "queryMongoDB", "deleteFromMongoDB"}

\* what this step added to the history of calls
NewCalls == SubSeq(calls', Len(calls) + 1, Len(calls'))

\* this step entered an adapter function of the set
Entered(functions) == \E i \in 1..Len(NewCalls) : NewCalls[i] \in functions

\* this step entered and left analyzeAndStoreJSON's store call with error
StoreRejected(error) ==
  /\ pc = "idle" /\ pc' = "log_upload"
  /\ caught' = error

\* this step entered and left the direct adapter call with error
CallRejected(error) ==
  /\ adapterCall.pc = "idle" /\ adapterCall'.pc = "done"
  /\ adapterCall'.threw /\ adapterCall'.error = error

\* C13: while an engine has no connection, every adapter function of that
\* engine that is entered (store, query, delete) is rejected with the
\* engine's 'not configured' error in the same step, sends no request and
\* changes nothing in either backend.
Thm_C13_NotConfigured ==
  [][/\ (~pgPool /\ Entered(PgFunctions)) =>
          /\ StoreRejected("PostgreSQL not configured")
             \/ CallRejected("PostgreSQL not configured")
          /\ \A i \in 1..Len(NewCalls) :
               NewCalls[i] \notin PgRequests \cup MongoRequests
          /\ UNCHANGED backendVars
     /\ (~mongoDb /\ Entered(MongoFunctions)) =>
          /\ StoreRejected("MongoDB not configured")
             \/ CallRejected("MongoDB not configured")
          /\ \A i \in 1..Len(NewCalls) :
               NewCalls[i] \notin PgRequests \cup MongoRequests
          /\ UNCHANGED backendVars
     /\ ~pgPool => \A i \in 1..Len(calls') : calls'[i] \notin PgRequests
     /\ ~mongoDb' => \A i \in 1..Len(NewCalls) :
                       NewCalls[i] \notin MongoRequests]_vars

\* without a pool, a relational store and a relational query were both
\* rejected and no table exists
Wit_C13_RejectedWithoutPool ==
  /\ ~pgPool
  /\ caught = "PostgreSQL not configured"
  /\ adapterCall.pc = "done" /\ adapterCall.fn = "queryPostgreSQL"
  /\ adapterCall.error = "PostgreSQL not configured"
  /\ pgTables = <<>>

\* storeInPostgreSQL has been called and is over
PgStoreOver ==
  /\ ~analysis.threw /\ analysis.useSQL
  /\ pc \in {"log_upload", "done"}

\* how many times an event occurs in the history of calls
Count(event) == Cardinality({i \in 1..Len(calls) : calls[i] = event})

\* C14: storeInPostgreSQL inserts one row per item: when it returns normally
\* the count returned is the number of items of the normalized dataset, one
\* INSERT was sent per item and the table holds one row per item, in order,
\* with the item's values; when the INSERT of an item fails the call is
\* rejected at once with that error, returns no count and sends no further
\* INSERT.
Thm_C14_OneRowPerItem ==
  /\ [](PgStoreOver =>
         LET items == PgItems(jsonData).value
             rows == StoredRecords
         IN /\ caught = "" =>
                 /\ recordCount = Len(items)
                 /\ Count("pg.INSERT") = Len(items)
                 /\ Len(rows) = Len(items)
                 /\ \A i \in 1..Len(rows) : \A j \in 1..Len(rows[i].cols) :
                      rows[i].vals[j] = ColumnValue(items[i], rows[i].cols[j])
            /\ caught # "" => Len(rows) < Len(items) \/ items = <<>>)
  /\ [][(pc = "pg_insert" /\ pc' # "pg_insert" /\ pgTables' = pgTables) =>
          /\ caught' \in PgInsertAnswers(pgTables, tableName,
                                         InsertNames(store),
                                         InsertValues(store)) \ {""}
          /\ pc' = "log_upload"
          /\ store'.insertedCount = store.insertedCount
          /\ Count("pg.INSERT")' = Count("pg.INSERT")]_vars

\* three items went into three rows and the store returned 3
Wit_C14_ThreeRows ==
  /\ PgStoreOver /\ caught = ""
  /\ recordCount = 3 /\ Len(StoredRecords) = 3

\* the columns storeInPostgreSQL derives from the first item of data
ColumnsOf(data) ==
  LET schema == inferSchema(PgItems(data).value[1]).value
  IN [i \in 1..Len(schema) |->
        [name |-> schema[i].name, pgType |-> PgType(schema[i].type)]]

\* a dataset that the relational backend takes when it is stored alone
\* under name: it has items, none of them null, its CREATE TABLE is
\* accepted, and every item's values fit the columns of the first item
Storable(data, name) ==
  /\ ~PgItems(data).threw
  /\ LET items == PgItems(data).value
     IN /\ items # <<>>
        /\ \A i \in 1..Len(items) : items[i].t # "null"
        /\ PgCreateAnswers(<<>>, name, ColumnsOf(data))
             = {"", ConnectionError}
        /\ \A i \in 1..Len(items) : \A j \in 1..Len(ColumnsOf(data)) :
             PgAccepts(ColumnsOf(data)[j].pgType,
                       ColumnValue(items[i], ColumnsOf(data)[j].name))

\* both relational stores are over, they had the same target, each dataset
\* is storable alone, and no request failed for reasons of its own
RaceOver ==
  /\ PgStoreOver /\ second.pc = "done"
  /\ pgPool /\ second.tableName = tableName
  /\ Storable(jsonData, tableName) /\ Storable(second.data, tableName)
  /\ caught # ConnectionError /\ second.error # ConnectionError

FirstCompleted ==
  caught = "" /\ recordCount = Len(PgItems(jsonData).value)
SecondCompleted ==
  ~second.threw /\ second.count = Len(PgItems(second.data).value)

\* C15: two relational stores racing on the same target name never both
\* fail: neither fails at the create-if-absent CREATE TABLE, whatever the
\* interleaving of their statements at least one of them inserts all its
\* items, and both do when the two datasets have the same columns.
Thm_C15_RaceOnCreate ==
  RaceOver =>
    /\ {caught, second.error}
         \subseteq {"", "column does not exist", "invalid input syntax"}
    /\ FirstCompleted \/ SecondCompleted
    /\ Range(ColumnsOf(jsonData)) = Range(ColumnsOf(second.data)) =>
         /\ FirstCompleted /\ SecondCompleted
         /\ Len(pgTables[tableName].rows) =
              Len(PgItems(jsonData).value) + Len(PgItems(second.data).value)

\* the rows of two datasets with the same columns alternate in one table
Wit_C15_Interleaved ==
  /\ RaceOver /\ FirstCompleted /\ SecondCompleted
  /\ Len(pgTables[tableName].rows) = 4
  /\ \A i \in 1..4 :
       pgTables[tableName].rows[i].vals[1].v = IF i \in {1, 4} THEN 1 ELSE 2

\* this step answers the pending delete of fn, whose target does not exist
\* in targets
DropOfMissing(fn, targets) ==
  /\ Awaiting(fn) /\ adapterCall'.pc = "done"
  /\ adapterCall.name \notin DOMAIN targets

\* C16: with the backend connected, dropping a target that does not exist
\* succeeds in both adapters: unless the request itself failed, the call
\* returns true (the relational DROP TABLE IF EXISTS does nothing, the
\* document adapter takes 'ns not found' as success), and in every case no
\* table and no collection is touched.
Thm_C16_DropOfMissingTarget ==
  [][(\/ DropOfMissing("deleteFromPostgreSQL", pgTables)
      \/ DropOfMissing("deleteFromMongoDB", mongoColls)) =>
       /\ adapterCall'.error \in {"", ConnectionError}
       /\ adapterCall'.threw = (adapterCall'.error = ConnectionError)
       /\ UNCHANGED <<pgTables, mongoColls>>]_vars

\* the collection 'orders' was never created, 'users' was; the delete of
\* 'orders' returned true and 'users' still holds its two documents
Wit_C16_MissingCollectionDropped ==
  /\ adapterCall.fn = "deleteFromMongoDB" /\ adapterCall.name = "orders"
  /\ adapterCall.pc = "done" /\ ~adapterCall.threw
  /\ DOMAIN mongoColls = {"users"} /\ Len(mongoColls["users"]) = 2

\* queryPostgreSQL has resolved to rows
PgQueryReturned ==
  /\ adapterCall.fn = "queryPostgreSQL"
  /\ adapterCall.pc = "done" /\ ~adapterCall.threw

\* queryPostgreSQL(tableName, N) was entered after storeInPostgreSQL had
\* returned N for a dataset of N >= 1 items, and its request was answered
QueriedAfterStore ==
  /\ PgStoreOver /\ caught = "" /\ recordCount >= 1
  /\ adapterCall.fn = "queryPostgreSQL" /\ adapterCall.pc = "done"
  /\ adapterCall.issuedAt \in {"log_upload", "done"}
  /\ adapterCall.name = tableName /\ adapterCall.limit = recordCount
  /\ adapterCall.error # ConnectionError

\* C17: after storeInPostgreSQL stored the N >= 1 items of a dataset routed
\* to the relational engine, queryPostgreSQL(target, N) returns exactly N
\* rows, the last item inserted first; whatever the table and the limit,
\* the rows returned are never more than the limit and are ordered by
\* created_at, latest first.
Thm_C17_QueryRoundTrip ==
  /\ PgQueryReturned =>
       /\ Len(adapterCall.value) <= adapterCall.limit
       /\ \A i \in 1..Len(adapterCall.value) :
            \A j \in i..Len(adapterCall.value) :
              adapterCall.value[i].created_at
                >= adapterCall.value[j].created_at
  /\ QueriedAfterStore =>
       LET items == PgItems(jsonData).value
           rows == adapterCall.value
       IN /\ ~adapterCall.threw
          /\ Len(rows) = recordCount /\ Len(rows) = Len(items)
          /\ \A i \in 1..Len(rows) : \A j \in 1..Len(rows[i].cols) :
               rows[i].vals[j] =
                 ColumnValue(items[Len(items) + 1 - i], rows[i].cols[j])

\* the two users were stored, then queried with limit 2: both came back,
\* user 2 first
Wit_C17_TwoUsersBack ==
  /\ QueriedAfterStore /\ recordCount = 2
  /\ Len(adapterCall.value) = 2
  /\ adapterCall.value[1].vals[1] = JNum(2)
  /\ adapterCall.value[2].vals[1] = JNum(1)

\* storeInMongoDB has been called and is over
MongoStoreOver ==
  /\ ~analysis.threw /\ ~analysis.useSQL
  /\ pc \in {"log_upload", "done"}

\* doc is item with a created_at date added: the own properties of item in
\* order, then the timestamp
Stamped(doc, item) ==
  LET n == Len(doc.k)
  IN /\ doc.t = "object" /\ n >= 1
     /\ doc.k[n] = "created_at" /\ doc.c[n].t = "date"
     /\ SubSeq(doc.k, 1, n - 1) =
          (IF item.t = "null" THEN <<>> ELSE ObjectKeys(item))
     /\ SubSeq(doc.c, 1, n - 1) =
          (IF item.t = "null" THEN <<>> ELSE ObjectValues(item))

\* C18: storeInMongoDB sends every item of the normalized dataset, each as
\* one document carrying the item's properties and a created_at date, in
\* one insertMany call; when it returns normally the count is the number of
\* documents acknowledged, all of them, now in the collection; the payload
\* the caller passed is never changed.
Thm_C18_DocumentInsert ==
  /\ [](pc = "mongo_insert" =>
         /\ store.items = MongoItems(jsonData).value
         /\ Len(store.docs) = Len(store.items)
         /\ \A i \in 1..Len(store.docs) :
              Stamped(store.docs[i], store.items[i])
         /\ Count("mongo.insertMany") = 1)
  /\ []((MongoStoreOver /\ caught = "") =>
         /\ recordCount = Len(MongoItems(jsonData).value)
         /\ Len(StoredRecords) = recordCount
         /\ recordCount > 0 =>
              /\ StoredRecords = store.docs
              /\ Count("mongo.insertMany") = 1
         /\ recordCount = 0 => Count("mongo.insertMany") = 0)
  /\ [][pc # "idle" => jsonData' = jsonData]_vars

\* a wrapped array of two items became two stamped documents
Wit_C18_TwoDocuments ==
  /\ MongoStoreOver /\ caught = ""
  /\ Unwraps(jsonData)
  /\ recordCount = 2 /\ Len(StoredRecords) = 2
  /\ \A i \in 1..2 : Stamped(StoredRecords[i], jsonData.c[1].c[i])

\* the engine whose store function the call has entered
EngineInvoked ==
  IF Count("storeInPostgreSQL") > 0 THEN "PostgreSQL"
  ELSE IF Count("storeInMongoDB") > 0 THEN "MongoDB"
  ELSE "none"

\* the records emitted so far, to the event log or to the console
Emitted == uploads \o errors \o console

\* C19: in every analyzeAndStoreJSON call the store function of one adapter
\* only is entered, once, and it is the one the decision selects; nothing
\* is requested of the other backend and no request is repeated after a
\* failure; the db_type of the record emitted and the database of the
\* result returned name the engine whose store function ran.
Thm_C19_OneAdapterOnce ==
  /\ Count("storeInPostgreSQL") + Count("storeInMongoDB") <= 1
  /\ Count("pg.CREATE TABLE") <= 1 /\ Count("mongo.insertMany") <= 1
  /\ Count("pg.INSERT") <= Len(store.items)
  /\ (pc # "idle" /\ analysis.threw) => EngineInvoked = "none"
  /\ (pc # "idle" /\ ~analysis.threw) =>
       /\ EngineInvoked = IF analysis.useSQL THEN "PostgreSQL" ELSE "MongoDB"
       /\ analysis.useSQL =>
            /\ mongoColls = <<>>
            /\ \A i \in 1..Len(calls) : calls[i] \notin MongoRequests
       /\ ~analysis.useSQL =>
            /\ pgTables = <<>>
            /\ \A i \in 1..Len(calls) : calls[i] \notin PgRequests
  /\ (pc = "done" /\ result.success) =>
       /\ result.database = EngineInvoked
       /\ Len(Emitted) = 1
       /\ Emitted[1].db_type = EngineInvoked

\* the document store was entered once, its one insertMany failed and was
\* not repeated; record and result name MongoDB
Wit_C19_NoRetry ==
  /\ pc = "done" /\ result.success
  /\ caught = "insertMany failed"
  /\ EngineInvoked = "MongoDB"
  /\ Count("storeInMongoDB") = 1 /\ Count("mongo.insertMany") = 1
  /\ Count("storeInPostgreSQL") = 0
  /\ Emitted[1].db_type = "MongoDB"

(***************************************************************************)
(* Progress.  The runtime runs a call down to its first await, and runs    *)
(* the continuation of an await once the request is answered; whether a    *)
(* request is ever answered is up to the backend or the event log.  The    *)
(* code arms no timer (pgPool.query, insertMany and push are awaited as    *)
(* they are), so the only step that does not wait for an answer is the     *)
(* call itself.                                                            *)
(***************************************************************************)
Called == \E input \in Inputs : IngestStart(input[1], input[2])

SpecFair == Init /\ [][Next]_vars /\ WF_vars(Called)

\* C20: every analyzeAndStoreJSON call that has started returns to its
\* caller, even when the backend or the event log never answers (the
\* awaited requests are bounded by a timeout).
Claim_C20_IngestReturns == (pc # "idle") ~> (pc = "done")

\* C21: every error raised during an analyzeAndStoreJSON call (by the
\* analysis, by a backend that is not configured, by a failed write) has
\* led, by the time the call returns, to at least one attempt to emit a
\* record of that error (logError): a record carrying the error's message
\* has gone to the event log or, the push failing, to the console.
Claim_C21_ErrorsAreLogged ==
  (pc = "done" /\ caught # "") =>
    /\ Count("logError") >= 1
    /\ \E i \in 1..Len(Emitted) :
         "message" \in DOMAIN Emitted[i] /\ Emitted[i].message = caught

\* the place of an event in the order of one call's steps
StepRank(event) ==
  CASE event = "analyzeJSONSchema" -> 1
    [] event \in {"storeInPostgreSQL", "storeInMongoDB"} -> 2
    [] event = "pg.CREATE TABLE" -> 3
    [] event \in {"pg.INSERT", "mongo.insertMany"} -> 4
    [] event \in {"logUpload", "logError"} -> 5
    [] event = "return" -> 6

\* C22: within one analyzeAndStoreJSON call the steps come in the order
\* decide, the chosen adapter's CREATE TABLE and inserts, emission of the
\* result record, return: no record is emitted while the store is still
\* running, success is returned only once the emission attempt is over, and
\* a successful call has emitted exactly one result record.
Thm_C22_StepOrder ==
  /\ \A i \in 1..Len(calls) : \A j \in i..Len(calls) :
       StepRank(calls[i]) <= StepRank(calls[j])
  /\ calls # <<>> => calls[1] = "analyzeJSONSchema"
  /\ Count("analyzeJSONSchema") <= 1 /\ Count("return") <= 1
  /\ Count("logUpload") + Count("logError") <= 1
  /\ pc \in {"pg_create", "pg_insert", "mongo_insert"} =>
       /\ Count("logUpload") = 0
       /\ Emitted = <<>>
  /\ pc # "done" => /\ ~result.success
                    /\ Emitted = <<>>
                    /\ Count("return") = 0
  /\ (pc = "done" /\ result.success) =>
       /\ Count("logUpload") = 1
       /\ calls[Len(calls)] = "return"
       /\ calls[Len(calls) - 1] = "logUpload"
       /\ Len(Emitted) = 1
       /\ Emitted[1] = Metadata

\* a relational call went through all its steps in order
Wit_C22_AllSteps ==
  /\ pc = "done" /\ result.success
  /\ calls = <<"analyzeJSONSchema", "storeInPostgreSQL", "pg.CREATE TABLE",
               "pg.INSERT", "pg.INSERT", "logUpload", "return">>
  /\ uploads = <<Metadata>>

\* what decide looks at in an item past the first: its key set (a null
\* item has none)
KeyMark(item) ==
  IF item.t = "null" THEN [isNull |-> TRUE, keys |-> {}]
  ELSE [isNull |-> FALSE, keys |-> KeySet(item)]

\* two datasets with the same first item and, at each index 1..9, the same
\* key set (or no item in either)
SameSample(xs, ys) ==
  /\ xs # <<>> /\ ys # <<>>
  /\ xs[1] = ys[1]
  /\ \A i \in 2..10 :
       /\ (i <= Len(xs)) = (i <= Len(ys))
       /\ i <= Len(xs) => KeyMark(xs[i]) = KeyMark(ys[i])

\* the payloads that are objects or arrays
Datasets == {d \in Payloads : IsObjectLike(d)}

\* the outcome of decide: whether it threw, engine, justification, schema
Verdict(a) ==
  [threw |-> a.threw, useSQL |-> a.useSQL, reason |-> a.reason,
   schema |-> a.schema]
\* every dataset with the outcome of decide on it
Analysed ==
  {[items |-> AnalyzeItems(d), verdict |-> Verdict(analyzeJSONSchema(d))] :
     d \in Datasets}

\* C23: decide depends only on the first item and on the key sets of the
\* items at index 1..9: whenever a dataset is analysed, every dataset with
\* the same first item and the same key sets there has the same outcome
\* (engine, justification, schema), whatever the values in its items past
\* the first and whatever comes from index 10 on; the payload is left as it
\* was and analysing it again gives the decision held.
Thm_C23_DecideDependsOnSample ==
  /\ [][(pc = "idle" /\ pc' # "idle" /\ IsObjectLike(jsonData')) =>
          LET mine == AnalyzeItems(jsonData')
          IN \A other \in Analysed :
               SameSample(mine, other.items) =>
                 other.verdict = Verdict(analysis')]_vars
  /\ [][pc # "idle" => /\ jsonData' = jsonData
                       /\ analysis' = analysis
                       /\ analysis' = analyzeJSONSchema(jsonData')]_vars

\* the dataset analysed has peers that differ from it in the values of a
\* sampled item and in the keys of an item past the sample
Wit_C23_PeersDiffer ==
  /\ pc # "idle" /\ ~analysis.threw /\ Len(analysis.items) > 10
  /\ \E other \in Analysed :
       /\ SameSample(analysis.items, other.items)
       /\ Len(other.items) > 10
       /\ other.items[2] # analysis.items[2]
       /\ KeySet(other.items[11]) # KeySet(analysis.items[11])

\* C24: the target name of an upload is its own: no other filename is
\* given the target name this call stores into.
Claim_C24_OwnTarget ==
  (pc # "idle" /\ ~analysis.threw) =>
    \A other \in Filenames :
      other # filename => TableName(other) # tableName

\* the column a field of the first item is to get: its name, and a type
\* from its value
ColumnFor(name, value) ==
  [name |-> name,
   pgType |-> CASE value.t = "number" -> "NUMERIC"
                [] value.t = "boolean" -> "BOOLEAN"
                [] value.t \in {"object", "array"} -> "JSONB"
                [] value.t \in {"string", "null"} -> "TEXT"]

\* one column per field of the first item of data, in the item's order
ExpectedColumns(data) ==
  LET first == PgItems(data).value[1]
  IN [i \in 1..Len(ObjectKeys(first)) |->
        ColumnFor(ObjectKeys(first)[i], ObjectValues(first)[i])]

\* C25: the CREATE TABLE of storeInPostgreSQL names exactly one column per
\* field of the dataset's first item, typed from the field's value (number:
\* NUMERIC, boolean: BOOLEAN, object or array: JSONB, string or null: TEXT);
\* a table it creates has those columns and no row, its rows get a
\* generated id and a created_at; a table that exists already is left as it
\* is, columns and rows.
Thm_C25_Columns ==
  /\ [](/\ pc = "pg_create" => store.columns = ExpectedColumns(jsonData)
        /\ second.pc = "pg_create" =>
             second.store.columns = ExpectedColumns(second.data)
        /\ \A name \in DOMAIN pgTables :
             \A i \in 1..Len(pgTables[name].rows) :
               /\ pgTables[name].rows[i].id = i
               /\ pgTables[name].rows[i].created_at \in 1..clock)
  /\ [][/\ (pc = "pg_create" /\ pc' # "pg_create") =>
             IF tableName \in DOMAIN pgTables THEN pgTables' = pgTables
             ELSE \/ pgTables' = pgTables
                  \/ pgTables' = pgTables @@
                       (tableName :> [columns |-> ExpectedColumns(jsonData),
                                      rows |-> <<>>])
        /\ (second.pc = "pg_create" /\ second'.pc # "pg_create") =>
             IF second.tableName \in DOMAIN pgTables THEN pgTables' = pgTables
             ELSE \/ pgTables' = pgTables
                  \/ pgTables' = pgTables @@
                       (second.tableName :>
                          [columns |-> ExpectedColumns(second.data),
                           rows |-> <<>>])]_vars

\* the table was created with a BOOLEAN, a TEXT and two JSONB columns by
\* the second store; the first, whose dataset asks for one NUMERIC column,
\* has had its CREATE TABLE answered and the table is as it was
Wit_C25_ExistingTableKept ==
  /\ pc = "pg_insert"
  /\ store.columns = <<[name |-> "a", pgType |-> "NUMERIC"]>>
  /\ tableName \in DOMAIN pgTables
  /\ pgTables[tableName].columns =
       <<[name |-> "a", pgType |-> "BOOLEAN"], [name |-> "b", pgType |-> "TEXT"],
         [name |-> "c", pgType |-> "JSONB"], [name |-> "d", pgType |-> "JSONB"]>>

\* C26: analyzeJSONSchema is total on parsed JSON: for every object or array
\* payload, arrays with null or scalar elements included, it returns a
\* decision and raises no error.
Claim_C26_DecideIsTotal ==
  (pc # "idle" /\ IsObjectLike(jsonData)) =>
    /\ ~analysis.threw
    /\ analysis.reason # ""
    /\ Count("logError") = 0

\* storeInPostgreSQL got as far as its table and was then rejected
PgStoreFailedMidway ==
  /\ PgStoreOver /\ caught # ""
  /\ store.items # <<>>
  /\ tableName \in DOMAIN pgTables

\* the values row holds are those of item, column by column
RowOf(row, item) ==
  \A j \in 1..Len(row.cols) : row.vals[j] = ColumnValue(item, row.cols[j])

\* C27: storeInPostgreSQL writes its rows one INSERT at a time, in dataset
\* order, outside any transaction: when it is rejected at item k (0-based),
\* the table holds exactly the rows of items 0..k-1 of the call, in order,
\* none of item k or later, and no row once written is ever taken back.
Thm_C27_PartialRowsRemain ==
  /\ [](PgStoreFailedMidway =>
          LET rows == pgTables[tableName].rows
              k == store.next - 1
          IN /\ k = store.insertedCount /\ k < Len(store.items)
             /\ Count("pg.INSERT") \in {k, k + 1}
             /\ Len(rows) = k
             /\ \A i \in 1..k : RowOf(rows[i], store.items[i]))
  /\ [][\A name \in DOMAIN pgTables :
          /\ name \in DOMAIN pgTables'
          /\ Len(pgTables'[name].rows) >= Len(pgTables[name].rows)
          /\ SubSeq(pgTables'[name].rows, 1, Len(pgTables[name].rows))
               = pgTables[name].rows]_vars

\* the INSERT of the third of more than three items failed: two rows stay
Wit_C27_TwoRowsStay ==
  /\ PgStoreFailedMidway /\ pc = "done"
  /\ Len(store.items) > 3 /\ store.next = 3
  /\ Count("pg.INSERT") = 3
  /\ Len(pgTables[tableName].rows) = 2

\* this step sent a request to the document store
MongoRequested == \E i \in 1..Len(NewCalls) : NewCalls[i] \in MongoRequests

\* this step turned a document adapter function away at its guard
MongoNotConfigured ==
  \/ StoreRejected("MongoDB not configured")
  \/ CallRejected("MongoDB not configured")

\* C28: mongoDb is set only by the completion of the connect started at
\* module load and is never reset.  A document adapter function entered
\* while it is unset (connect pending, failed or never started) is rejected
\* with 'MongoDB not configured', sends no request and writes nothing; one
\* entered once it is set passes the guard and sends its request (a store
\* of no items, which returns 0 at once, excepted).
Thm_C28_HandleSetOnConnect ==
  /\ [](mongoDb <=> mongoConn = "connected")
  /\ [][/\ mongoDb' # mongoDb =>
             mongoConn = "pending" /\ mongoConn' = "connected" /\ mongoDb'
        /\ mongoDb => mongoDb'
        /\ (~mongoDb /\ Entered(MongoFunctions)) =>
             /\ MongoNotConfigured
             /\ ~MongoRequested
             /\ UNCHANGED backendVars
        /\ (mongoDb /\ Entered(MongoFunctions)) =>
             /\ ~MongoNotConfigured
             /\ MongoRequested
                \/ (Entered({"storeInMongoDB"})
                    /\ MongoItems(jsonData').value = <<>>)]_vars

\* a store entered while the connect was pending was rejected; the connect
\* then completed and a query was sent to the document store
Wit_C28_BeforeAndAfter ==
  /\ caught = "MongoDB not configured"
  /\ mongoDb
  /\ adapterCall.fn = "queryMongoDB" /\ adapterCall.pc = "await"

\* the DELETE request took this step
Did(step) == \E i \in 1..Len(deletion.steps) : deletion.steps[i] = step

\* the positions of a step in the DELETE request's history
Position(step) == {i \in 1..Len(deletion.steps) : deletion.steps[i] = step}

\* the record the DELETE request is about, once it has read one
Target == uploads[deletion.id]
HasTarget == deletion.pc \in {"blob", "drop", "remove"} \/ Did("remove")

\* no record: 404, and no delete, drop or remove was ever requested
NoRecordNoDeletion ==
  (deletion.pc = "done" /\ ~HasTarget /\ Did("once") /\ deletion.status # 500)
    => /\ deletion.status = 404
       /\ ~Did("destroy") /\ ~Did("drop") /\ ~Did("remove")
       /\ removed = {}

\* JSON record: deleteFromDatabase comes before remove, and its failure
\* stops neither the removal nor the success response
DropThenRemove ==
  (HasTarget /\ Target.type = "json") =>
    /\ Did("deleteFromDatabase")
    /\ \A i \in Position("deleteFromDatabase") : \A j \in Position("remove") :
         i < j
    /\ deletion.warned # "" => Did("remove")
    /\ (deletion.warned # "" /\ deletion.pc = "done") =>
         \/ deletion.status = 200 /\ deletion.id \in removed
         \/ deletion.status = 500 /\ deletion.id \notin removed

\* media record: a failed blob delete ends the request with the record kept
BlobFailureAborts ==
  (HasTarget /\ Target.type = "media" /\ Did("destroy failed")) =>
    /\ ~Did("remove")
    /\ deletion.id \notin removed
    /\ deletion.pc = "done" /\ deletion.status = 500

\* C29: DELETE /files/:id answers 404 and deletes nothing when the record
\* does not exist; for a JSON record it calls deleteFromDatabase before it
\* removes the record, and a failure there prevents neither the removal nor
\* the success response; for a media record a failed blob delete aborts the
\* request and leaves the record in place.
Claim_C29_DeletionFlow ==
  /\ NoRecordNoDeletion
  /\ DropThenRemove
  /\ BlobFailureAborts

\* this step entered analyzeAndStoreJSON
FileStarted ==
  \E i \in 1..Len(NewCalls) : NewCalls[i] = "analyzeJSONSchema"

\* the uploaded files whose bytes parse
ParsedFiles ==
  {i \in 1..Len(batch.files) : ~JSONParse(batch.files[i].buffer).threw}

\* C30: a batch is ingested one file after another in input order.
\* processBatchJSONFiles returns one result per file at the file's index;
\* a file is entered only when every file entered before it has returned,
\* and it is a later file of the batch; a file that failed, or whose bytes
\* did not parse in processJSONFilesInBackground, does not keep the later
\* files from being ingested; POST /json has answered 202 before the first
\* file is entered.
Thm_C30_BatchInOrder ==
  /\ []((batch.fn = "processBatchJSONFiles" /\ batch.pc = "done") =>
          /\ Len(batch.results) = Len(batch.files)
          /\ \A i \in 1..Len(batch.files) :
               /\ batch.results[i].filename = batch.files[i].filename
               /\ batch.results[i].success
                    <=> ~analyzeJSONSchema(batch.files[i].data).threw
          /\ Count("analyzeJSONSchema") = Len(batch.files)
          /\ Count("return") = Len(batch.files))
  /\ []((batch.fn = "POST /json" /\ batch.pc = "done"
         /\ batch.status = 202) =>
          /\ Len(batch.results) = Len(batch.files)
          /\ \A i \in 1..Len(batch.files) :
               batch.results[i] = IF i \in ParsedFiles THEN "completed"
                                  ELSE "parse failed"
          /\ Count("analyzeJSONSchema") = Cardinality(ParsedFiles)
          /\ Count("return") = Cardinality(ParsedFiles))
  /\ []((batch.fn = "POST /json" /\ Count("analyzeJSONSchema") > 0) =>
          batch.status = 202 /\ Head(batch.steps) = "202")
  /\ [][FileStarted =>
          /\ Count("analyzeJSONSchema") = Count("return")
          /\ batch'.next > batch.next
          /\ \A i \in (batch.next + 1)..(batch'.next - 1) :
               i \notin ParsedFiles'
          /\ filename' = IF batch'.fn = "POST /json"
                         THEN batch'.files[batch'.next].originalname
                         ELSE batch'.files[batch'.next].filename
          /\ jsonData' = IF batch'.fn = "POST /json"
                         THEN batch'.files[batch'.next].buffer.value
                         ELSE batch'.files[batch'.next].data]_vars

\* processBatchJSONFiles returned three results, the second a failure
\* between two successes
Wit_C30_FailureInTheMiddle ==
  /\ batch.fn = "processBatchJSONFiles" /\ batch.pc = "done"
  /\ Len(batch.results) = 3
  /\ batch.results[1].success
  /\ ~batch.results[2].success
  /\ batch.results[3].success

\* the background loop passed over a file whose bytes do not parse and
\* completed the file after it
Wit_C30_ParseFailurePassed ==
  /\ batch.fn = "POST /json" /\ batch.pc = "done"
  /\ batch.results = <<"completed", "parse failed", "completed">>
=============================================================================
